---- MODULE Spec2Model ----
(***************************************************************************)
(* Document Processing API: the DOCX and PDF extractors, the image         *)
(* preprocessing and the OCR extraction, and the /process/document/        *)
(* endpoint with its PDF OCR fallback and its files in the upload          *)
(* directory.                                                              *)
(*                                                                         *)
(* Text is a sequence of atoms.  An atom is one whitespace character       *)
(* ("\n", " ", "\t") or a non-empty chunk of characters holding no         *)
(* whitespace, so that strip(), replace('\n\n\n', '\n\n'), join() and      *)
(* len() act on the sequence exactly as Python acts on the string.         *)
(***************************************************************************)
EXTENDS Integers, Sequences, FiniteSets, TLC

VARIABLES
    input,      \* extraction, preprocessing run: the file handed to the processor
    result,     \* extraction, preprocessing run: the processor's locals, what it
                \* returned or raised
    reqs,       \* endpoint: the requests in flight, one record per request
    fs,         \* endpoint: the upload directory, file name -> content
    env         \* endpoint: what the environment makes fail in this run

vars == <<input, result, reqs, fs, env>>

-----------------------------------------------------------------------------
(* Bounds of the model                                                     *)

MaxPages == 2
MaxElems == 3
MaxRows == 3

-----------------------------------------------------------------------------
(* Strings                                                                 *)

NL == "\n"
SP == " "
TAB == "\t"

IsSpace(a) == a \in {NL, SP, TAB}

RECURSIVE LStrip(_)
LStrip(s) ==
    IF s = <<>> THEN s
    ELSE IF IsSpace(Head(s)) THEN LStrip(Tail(s)) ELSE s

RECURSIVE RStrip(_)
RStrip(s) ==
    IF s = <<>> THEN s
    ELSE IF IsSpace(s[Len(s)]) THEN RStrip(SubSeq(s, 1, Len(s) - 1)) ELSE s

\* str.strip()
Strip(s) == RStrip(LStrip(s))

RECURSIVE StrLen(_)
\* len(str)
StrLen(s) == IF s = <<>> THEN 0 ELSE Len(Head(s)) + StrLen(Tail(s))

RECURSIVE Join(_, _)
\* sep.join(parts)
Join(sep, parts) ==
    IF parts = <<>> THEN <<>>
    ELSE IF Len(parts) = 1 THEN parts[1]
    ELSE parts[1] \o sep \o Join(sep, Tail(parts))

RECURSIVE ReplaceTripleNewline(_)
\* str.replace('\n\n\n', '\n\n'): one left-to-right pass over non-overlapping matches
ReplaceTripleNewline(s) ==
    IF s = <<>> THEN <<>>
    ELSE IF Len(s) >= 3 /\ s[1] = NL /\ s[2] = NL /\ s[3] = NL
         THEN <<NL, NL>> \o ReplaceTripleNewline(SubSeq(s, 4, Len(s)))
         ELSE <<Head(s)>> \o ReplaceTripleNewline(Tail(s))

\* f"{n:03d}"
Pad3(n) ==
    IF n < 10 THEN "00" \o ToString(n)
    ELSE IF n < 100 THEN "0" \o ToString(n)
    ELSE ToString(n)

\* f"table{table_count:03d}"
TableId(n) == "table" \o Pad3(n)

\* os.path.basename / os.path.splitext on a name [dir, stem, ext]
Basename(path) == [path EXCEPT !.dir = ""]

\* the name [dir, stem, ext] as the string an f-string shows
PathStr(path) ==
    (IF path.dir = "" THEN "" ELSE path.dir \o "/")
    \o path.stem \o (IF path.ext = "" THEN "" ELSE "." \o path.ext)

\* sub in s
Contains(s, sub) ==
    \E i \in 1..(Len(s) - Len(sub) + 1) : SubSeq(s, i, i + Len(sub) - 1) = sub

\* str(e) of the exception a backend raises on a file it cannot read
BackendMessage(file) ==
    IF file.kind = "missing" THEN "no such file" ELSE "cannot read " \o file.kind \o " data"

-----------------------------------------------------------------------------
(* PDF extractor: app/processing/pdf_processor.py                          *)

\* str(cell) if cell is not None else ""
CellStr(cell) == IF cell.kind = "None" THEN "" ELSE cell.v

RowStr(row) == [i \in 1..Len(row) |-> CellStr(row[i])]

TextElement(block) ==
    [type |-> "text",
     bbox |-> block.bbox,
     content |-> Strip(block.text_content),
     y_start |-> block.bbox[2]]

TablePlaceholderElement(fitz_table, table_count) ==
    [type |-> "table_placeholder",
     bbox |-> fitz_table.bbox,
     id |-> TableId(table_count),
     fitz_table_obj |-> fitz_table,
     y_start |-> fitz_table.bbox[2]]

RECURSIVE TextElements(_)
\* the loop over text_blocks: only block_type 0 becomes an element
TextElements(text_blocks) ==
    IF text_blocks = <<>> THEN <<>>
    ELSE (IF Head(text_blocks).block_type = 0
          THEN <<TextElement(Head(text_blocks))>> ELSE <<>>)
         \o TextElements(Tail(text_blocks))

\* the loop over table_finder: table_count is incremented once per table
TableElements(tables, table_count) ==
    [i \in 1..Len(tables) |-> TablePlaceholderElement(tables[i], table_count + i)]

\* key=lambda el: (el["y_start"], el["bbox"][0])
KeyLE(a, b) ==
    \/ a.y_start < b.y_start
    \/ a.y_start = b.y_start /\ a.bbox[1] <= b.bbox[1]

RECURSIVE InsertSorted(_, _)
InsertSorted(e, s) ==
    IF s = <<>> THEN <<e>>
    ELSE IF KeyLE(s[Len(s)], e) THEN s \o <<e>>
    ELSE InsertSorted(e, SubSeq(s, 1, Len(s) - 1)) \o <<s[Len(s)]>>

SortElements_BackendOrder(s) == s

RECURSIVE SortElements(_)
\* list.sort(key=...): stable
SortElements(s) ==
    IF s = <<>> THEN <<>>
    ELSE InsertSorted(s[Len(s)], SortElements(SubSeq(s, 1, Len(s) - 1)))

\* f"\n[[INSERT_TABLE:{table_id}]]\n"
PdfPlaceholder(table_id) == <<NL, "[[INSERT_TABLE:" \o table_id \o "]]", NL>>

TableDetail_AllRowsAsData(table_id, table_count, extracted_rows, page_num) ==
    [id |-> table_id,
     position |-> table_count,
     caption |-> "None",
     headers |-> IF extracted_rows = <<>> THEN <<>> ELSE RowStr(extracted_rows[1]),
     data |-> [i \in 1..Len(extracted_rows) |-> RowStr(extracted_rows[i])],
     page_number |-> page_num + 1]

\* table_detail; table_count is the counter's value when the element is emitted
TableDetail(table_id, table_count, extracted_rows, page_num) ==
    [id |-> table_id,
     position |-> table_count,
     caption |-> "None",
     headers |-> IF extracted_rows = <<>> THEN <<>> ELSE RowStr(extracted_rows[1]),
     data |-> IF extracted_rows = <<>> THEN <<>>
              ELSE [i \in 1..(Len(extracted_rows) - 1) |-> RowStr(extracted_rows[i + 1])],
     page_number |-> page_num + 1]

RECURSIVE EmitElements(_, _, _)
\* the loop over the sorted page_elements: [parts, tables] of one page
EmitElements(elements, table_count, page_num) ==
    IF elements = <<>> THEN [parts |-> <<>>, tables |-> <<>>]
    ELSE LET element == Head(elements)
             rest == EmitElements(Tail(elements), table_count, page_num)
         IN IF element.type = "text"
            THEN [parts |-> (IF element.content # <<>> THEN <<element.content>> ELSE <<>>)
                            \o rest.parts,
                  tables |-> rest.tables]
            ELSE [parts |-> <<PdfPlaceholder(element.id)>> \o rest.parts,
                  tables |-> <<TableDetail(element.id, table_count,
                                           element.fitz_table_obj.rows, page_num)>>
                             \o rest.tables]

PdfStart_KeepsTableCount ==
    [page_num |-> 0,
     table_count |-> IF "tables_data" \in DOMAIN result THEN Len(result.tables_data) ELSE 0,
     tables_data_list |-> <<>>,
     full_page_text |-> <<>>]

\* the locals of process_pdf_file before the first page
PdfStart == [page_num |-> 0, table_count |-> 0, tables_data_list |-> <<>>,
             full_page_text |-> <<>>]

\* one pass of the loop over the pages: page is doc.load_page(page_num)
PdfPage(st, page) ==
    LET counted == st.table_count + Len(page.tables)
        page_elements == SortElements(TextElements(page.text_blocks)
                                      \o TableElements(page.tables, st.table_count))
        out == EmitElements(page_elements, counted, st.page_num)
    IN [page_num |-> st.page_num + 1,
        table_count |-> counted,
        tables_data_list |-> st.tables_data_list \o out.tables,
        full_page_text |-> IF out.parts # <<>>
                           THEN Append(st.full_page_text, Join(<<NL>>, out.parts))
                           ELSE st.full_page_text]

\* final_text
PdfFinalText(pages_text) == Strip(ReplaceTripleNewline(Join(<<NL, NL>>, pages_text)))

\* the dict process_pdf_file returns
PdfReturnValue(file_path, st) ==
    [raised |-> "",
     text_with_placeholders |-> PdfFinalText(st.full_page_text),
     tables_data |-> st.tables_data_list,
     source_basename |-> Basename(file_path)]

PdfError_BareMessage(file_path, e) ==
    [raised |-> "ValueError", message |-> e]

\* the except clause: raise ValueError(f"Error processing PDF file {file_path}: {e}")
PdfError(file_path, e) ==
    [raised |-> "ValueError",
     message |-> "Error processing PDF file " \o PathStr(file_path) \o ": " \o e]

RECURSIVE PdfPages(_, _)
PdfPages(st, pages) ==
    IF pages = <<>> THEN st ELSE PdfPages(PdfPage(st, Head(pages)), Tail(pages))

\* the elements of a document (pages, body elements) the backend raises on
Raising(elements) == {k \in 1..Len(elements) : "raises" \in DOMAIN elements[k]}

\* str(e) of the exception raised on the first such element
FirstRaised(elements) ==
    elements[CHOOSE k \in Raising(elements) : \A j \in Raising(elements) : k <= j].raises

\* process_pdf_file(file_path), file being what fitz.open finds at file_path
ProcessPdfFile(file_path, file) ==
    IF file.kind # "pdf"
    THEN PdfError(file_path, BackendMessage(file))
    ELSE IF Raising(file.pages) # {}
    THEN PdfError(file_path, FirstRaised(file.pages))
    ELSE PdfReturnValue(file_path, PdfPages(PdfStart, file.pages))

-----------------------------------------------------------------------------
(* DOCX extractor: app/processing/docx_processor.py                        *)

\* generated_placeholder = f"\n[[insert-{table_id}]]\n"
DocxPlaceholder(table_id) == <<NL, "[[insert-" \o table_id \o "]]", NL>>

RECURSIVE BodyTables(_)
\* document.tables: the w:tbl children of the body, in body order
BodyTables(body) ==
    IF body = <<>> THEN <<>>
    ELSE (IF Head(body).tag = "w:tbl" THEN <<Head(body)>> ELSE <<>>)
         \o BodyTables(Tail(body))

\* current_table_data: cell.text of every cell of every row
DocxTableData(table_object) ==
    [r \in 1..Len(table_object.rows) |->
        [c \in 1..Len(table_object.rows[r]) |-> table_object.rows[r][c]]]

RECURSIVE DocxBody(_, _, _, _, _)
\* the loop over document.element.body, from element index i (1-based) on
DocxBody(body, i, table_count, text_parts, named_tables) ==
    IF i > Len(body)
    THEN [text_parts |-> text_parts, named_tables |-> named_tables]
    ELSE LET block_element == body[i]
         IN IF block_element.tag = "w:p"
            THEN DocxBody(body, i + 1, table_count,
                          Append(text_parts, block_element.text), named_tables)
            ELSE IF block_element.tag = "w:tbl"
            THEN LET count == table_count + 1
                     table_id == TableId(count)
                     document_tables == BodyTables(body)
                 IN DocxBody(body, i + 1, count,
                             Append(text_parts, DocxPlaceholder(table_id)),
                             IF count <= Len(document_tables)
                             THEN (table_id :> DocxTableData(document_tables[count]))
                                  @@ named_tables
                             ELSE named_tables)
            ELSE DocxBody(body, i + 1, table_count, text_parts, named_tables)

\* text_with_placeholders of process_docx_file
DocxFinalText(text_parts) == Strip(ReplaceTripleNewline(Join(<<NL>>, text_parts)))

\* process_docx_file(file_path), file being what Document() finds at file_path
ProcessDocxFile(file_path, file) ==
    IF file.kind # "docx"
    THEN [raised |-> "ValueError",
          message |-> "Error processing DOCX file " \o PathStr(file_path) \o ": "
                      \o BackendMessage(file)]
    ELSE IF Raising(file.body) # {}
    THEN [raised |-> "ValueError",
          message |-> "Error processing DOCX file " \o PathStr(file_path) \o ": "
                      \o FirstRaised(file.body)]
    ELSE LET out == DocxBody(file.body, 1, 0, <<>>, <<>>)
         IN [raised |-> "",
             text_with_placeholders |-> DocxFinalText(out.text_parts),
             named_tables |-> out.named_tables,
             source_filename |-> file_path]

-----------------------------------------------------------------------------
(* The documents of the extraction runs                                    *)

Str(v) == [kind |-> "str", v |-> v]
None == [kind |-> "None"]

\* (x0, y0, x1, y1, text, block_no, block_type) of page.get_text("blocks"):
\* a text block at each of three places, named after its place, a blank text
\* block and an image block
TextBlocks ==
    {[bbox |-> <<0, 0, 1, 1>>, text_content |-> <<"A", NL>>, block_type |-> 0],
     [bbox |-> <<1, 0, 2, 1>>, text_content |-> <<"B", NL>>, block_type |-> 0],
     [bbox |-> <<0, 1, 1, 2>>, text_content |-> <<"C", NL>>, block_type |-> 0],
     [bbox |-> <<0, 1, 1, 2>>, text_content |-> <<SP, NL>>, block_type |-> 0],
     [bbox |-> <<0, 0, 1, 1>>, text_content |-> <<"<image>">>, block_type |-> 1]}

\* a table of page.find_tables() at each of the three places; rows is what
\* fitz_table.extract() returns: three rows, one row, no row
FitzTables ==
    {[bbox |-> <<0, 0, 1, 1>>,
      rows |-> <<<<Str("H1"), None>>, <<Str("a"), Str("b")>>, <<None, Str("c")>>>>],
     [bbox |-> <<1, 0, 2, 1>>, rows |-> <<<<Str("H2"), None>>>>],
     [bbox |-> <<0, 1, 1, 2>>, rows |-> <<>>]}

\* the pages holding at most n elements (text blocks and tables)
PdfPagesUpTo(n) ==
    UNION {{[text_blocks |-> b, tables |-> t] :
                b \in [1..i -> TextBlocks], t \in [1..j -> FitzTables]} :
           <<i, j>> \in {ij \in (0..n) \X (0..n) : ij[1] + ij[2] <= n}}

RECURSIVE ElemCount(_)
ElemCount(pages) ==
    IF pages = <<>> THEN 0
    ELSE Len(Head(pages).text_blocks) + Len(Head(pages).tables) + ElemCount(Tail(pages))

DocxParagraphs == {[tag |-> "w:p", text |-> t] : t \in {<<"A">>, <<"B">>, <<>>}}

DocxTables ==
    {[tag |-> "w:tbl", rows |-> r] :
        r \in {<<<<"H1", "H2">>>>, <<<<"H1", "H2">>, <<"D1", "D2">>>>}}

DocxOthers == {[tag |-> "w:sectPr"]}

\* a page and a body element the backend raises on
BrokenPage == [text_blocks |-> <<>>, tables |-> <<>>, raises |-> "cannot load page"]
BrokenElement == [tag |-> "w:p", text |-> <<>>, raises |-> "cannot read element"]

DocxFiles ==
    {[kind |-> "docx", body |-> b] :
        b \in UNION {[1..k -> DocxParagraphs \cup DocxTables \cup DocxOthers \cup {BrokenElement}] :
                     k \in 0..MaxElems}}

MissingFile == [kind |-> "missing"]

PdfPath == [dir |-> "fixtures", stem |-> "sample", ext |-> "pdf"]
DocxPath == [dir |-> "fixtures", stem |-> "sample", ext |-> "docx"]

-----------------------------------------------------------------------------
(* Extraction runs: a file is drawn, the processor of its type is applied  *)

NoResult == [raised |-> "not run"]

\* A PDF of n_pages pages (its pages are drawn as the processor loads them), a
\* DOCX body, or no file at the path.
InitExtract ==
    /\ input \in {[path |-> PdfPath, file |-> [kind |-> "pdf", n_pages |-> n, pages |-> <<>>]] :
                    n \in 0..MaxPages}
            \cup {[path |-> DocxPath, file |-> f] : f \in DocxFiles}
            \cup {[path |-> p, file |-> f] :
                    p \in {PdfPath, DocxPath}, f \in {MissingFile, [kind |-> "garbage"]}}
    /\ result = NoResult
    /\ reqs = <<>>
    /\ fs = <<>>
    /\ env = {}

\* process_pdf_file: fitz.open and the locals' initialisation
PdfOpen ==
    /\ result = NoResult
    /\ input.path.ext = "pdf"
    /\ result' = IF input.file.kind # "pdf"
                 THEN PdfError(input.path, BackendMessage(input.file))
                 ELSE [raised |-> "running", st |-> PdfStart]
    /\ UNCHANGED <<input, reqs, fs, env>>

\* process_pdf_file: one pass of the loop over the pages
PdfLoadPage ==
    /\ result.raised = "running"
    /\ result.st.page_num < input.file.n_pages
    /\ \E page \in PdfPagesUpTo(MaxElems - ElemCount(input.file.pages)) :
        /\ input' = [input EXCEPT !.file.pages = Append(@, page)]
        /\ result' = [result EXCEPT !.st = PdfPage(@, page)]
    /\ UNCHANGED <<reqs, fs, env>>

\* process_pdf_file: a pass of the loop in which the backend raises
PdfPageRaises ==
    /\ result.raised = "running"
    /\ result.st.page_num < input.file.n_pages
    /\ input' = [input EXCEPT !.file.pages = Append(@, BrokenPage)]
    /\ result' = PdfError(input.path, BrokenPage.raises)
    /\ UNCHANGED <<reqs, fs, env>>

\* process_pdf_file: after the last page
PdfReturn ==
    /\ result.raised = "running"
    /\ result.st.page_num = input.file.n_pages
    /\ result' = PdfReturnValue(input.path, result.st)
    /\ UNCHANGED <<input, reqs, fs, env>>

\* process_docx_file
RunDocx ==
    /\ result = NoResult
    /\ input.path.ext = "docx"
    /\ result' = ProcessDocxFile(input.path, input.file)
    /\ UNCHANGED <<input, reqs, fs, env>>

NextExtract == PdfOpen \/ PdfLoadPage \/ PdfPageRaises \/ PdfReturn \/ RunDocx

Spec == InitExtract /\ [][NextExtract]_vars

\* a second call of the processor on the same file, the backend returning
\* what it returned to the first; the first call's result is kept in input
RunAgain ==
    /\ result.raised \notin {"not run", "running"}
    /\ "previous" \notin DOMAIN input
    /\ input' = [path |-> input.path, file |-> input.file, previous |-> result]
    /\ result' = IF input.path.ext = "pdf" THEN ProcessPdfFile(input.path, input.file)
                 ELSE ProcessDocxFile(input.path, input.file)
    /\ UNCHANGED <<reqs, fs, env>>

NextRerun == NextExtract \/ RunAgain

SpecRerun == InitExtract /\ [][NextRerun]_vars

-----------------------------------------------------------------------------
(* Reading a result                                                        *)

PdfDone == input.path.ext = "pdf" /\ result.raised = ""
DocxDone == input.path.ext = "docx" /\ result.raised = ""

\* the token the interface prescribes for the table numbered n
Token(n) == "[[INSERT_TABLE:table" \o Pad3(n) \o "]]"

TokenNumbers == 1..(MaxElems + 1)

IsToken(a) == \E n \in TokenNumbers : a = Token(n)

\* the numbers of the tokens of a text, left to right
TokensOf(text) ==
    LET toks == SelectSeq(text, IsToken)
    IN [k \in 1..Len(toks) |-> CHOOSE n \in TokenNumbers : toks[k] = Token(n)]

NonSpace(a) == ~IsSpace(a)

RECURSIVE AllTables(_)
\* the tables of a PDF in the order the table finder returned them, page by page
AllTables(pages) ==
    IF pages = <<>> THEN <<>> ELSE Head(pages).tables \o AllTables(Tail(pages))

\* a row of extract() as strings, None as the empty string
RowAsStrings(row) == [i \in 1..Len(row) |-> IF row[i] = None THEN "" ELSE row[i].v]

\* C1: a PDF with N detected tables yields tables_data of length N whose
\* positions, in list order, are 1, 2, ..., N.
C1_PositionsOneToN ==
    PdfDone =>
        LET N == Len(AllTables(input.file.pages))
        IN /\ Len(result.tables_data) = N
           /\ \A k \in 1..N : result.tables_data[k].position = k

\* C2: the placeholders of text_with_placeholders, left to right, correspond one
\* to one with tables_data in list order: every table id is in exactly one
\* placeholder, every placeholder names a table, and the k-th placeholder names
\* the table whose position is k.
C2_PlaceholdersMatchTables ==
    PdfDone =>
        LET toks == TokensOf(result.text_with_placeholders)
            td == result.tables_data
        IN /\ Len(toks) = Len(td)
           /\ \A k \in 1..Len(td) :
                /\ TableId(toks[k]) = td[k].id
                /\ Cardinality({j \in 1..Len(toks) : TableId(toks[j]) = td[k].id}) = 1
                /\ \E j \in 1..Len(td) : td[j].position = k /\ td[j].id = TableId(toks[k])
                /\ Cardinality({j \in 1..Len(td) : td[j].position = k}) = 1

\* C3: every emitted table has headers equal to the first row of extract() (cells
\* as strings, None as "") and data equal to the remaining rows in order; one
\* row gives data = [], no row gives headers = [] and data = [].
C3_HeadersAndData ==
    PdfDone =>
        \A k \in 1..Len(result.tables_data) :
            LET t == result.tables_data[k]
                n == CHOOSE n \in TokenNumbers : TableId(n) = t.id
                rows == AllTables(input.file.pages)[n].rows
            IN IF rows = <<>>
               THEN t.headers = <<>> /\ t.data = <<>>
               ELSE /\ t.headers = RowAsStrings(rows[1])
                    /\ Len(t.data) = Len(rows) - 1
                    /\ \A i \in 1..Len(t.data) : t.data[i] = RowAsStrings(rows[i + 1])

\* a PDF result holding a table of three rows, one of one row and one of no row
C3_Witness ==
    /\ PdfDone
    /\ \E i, j, k \in 1..Len(result.tables_data) :
        /\ Len(result.tables_data[i].data) = 2
        /\ result.tables_data[i].data[2] = <<"", "c">>
        /\ result.tables_data[j].headers = <<"H2", "">> /\ result.tables_data[j].data = <<>>
        /\ result.tables_data[k].headers = <<>> /\ result.tables_data[k].data = <<>>

\* C4: process_docx_file returns tables_data, one table object per table of the
\* body in body order (id, position, caption None, headers the first row, data the
\* other rows), and source_basename, the basename of the path.
C4_DocxTablesData ==
    DocxDone =>
        LET tbls == BodyTables(input.file.body)
        IN /\ "tables_data" \in DOMAIN result
           /\ "source_basename" \in DOMAIN result
           /\ Len(result.tables_data) = Len(tbls)
           /\ \A k \in 1..Len(tbls) :
                result.tables_data[k] =
                    [id |-> TableId(k), position |-> k, caption |-> "None",
                     headers |-> tbls[k].rows[1],
                     data |-> [i \in 1..(Len(tbls[k].rows) - 1) |-> tbls[k].rows[i + 1]]]
           /\ result.source_basename = [input.path EXCEPT !.dir = ""]

RECURSIVE DocxExpected(_, _)
\* the non-blank atoms a DOCX body should give: every paragraph's words, and
\* the prescribed token of the k-th table at the table's place
DocxExpected(body, k) ==
    IF body = <<>> THEN <<>>
    ELSE IF Head(body).tag = "w:p"
         THEN SelectSeq(Head(body).text, NonSpace) \o DocxExpected(Tail(body), k)
         ELSE IF Head(body).tag = "w:tbl"
         THEN <<Token(k + 1)>> \o DocxExpected(Tail(body), k + 1)
         ELSE DocxExpected(Tail(body), k)

\* C5: in a DOCX and in a PDF result the k-th table is marked by exactly the
\* token [[INSERT_TABLE:tableNNN]], NNN = k on 3 digits, between the text before
\* and the text after it; a document without tables holds no such token.
C5_PlaceholderToken ==
    /\ DocxDone =>
        SelectSeq(result.text_with_placeholders, NonSpace) = DocxExpected(input.file.body, 0)
    /\ PdfDone =>
        LET N == Len(AllTables(input.file.pages))
            text == result.text_with_placeholders
        IN /\ \A k \in 1..N : Cardinality({i \in 1..Len(text) : text[i] = Token(k)}) = 1
           /\ \A i \in 1..Len(text) : IsToken(text[i]) => \E k \in 1..N : text[i] = Token(k)

-----------------------------------------------------------------------------
(* OCR extraction: app/processing/image_processor.py                       *)
(*                                                                         *)
(* An image file holds the rows pytesseract.image_to_data returns for the  *)
(* preprocessed image.  A row's text is a string or NaN (pandas reads an    *)
(* empty text field as NaN).                                               *)

NaN == [kind |-> "NaN"]

\* ocr_data_df['text'].astype(str)
AsTypeStr(text) == IF text.kind = "NaN" THEN <<"nan">> ELSE text.v

\* ocr_data_df[ocr_data_df.conf != -1]
ConfidentRows(rows) == SelectSeq(rows, LAMBDA row : row.conf # -1)

\* " ".join(ocr_data_df['text'].tolist()).strip()
ExtractedText(rows) ==
    Strip(Join(<<SP>>, [i \in 1..Len(rows) |-> AsTypeStr(rows[i].text)]))

RECURSIVE WordLevelDetails(_)
\* the loop over ocr_data_df.iterrows(), the text column being strings by now
WordLevelDetails(rows) ==
    IF rows = <<>> THEN <<>>
    ELSE (IF Strip(AsTypeStr(Head(rows).text)) # <<>>
          THEN <<[text |-> AsTypeStr(Head(rows).text),
                  confidence |-> IF Head(rows).conf # -1 THEN Head(rows).conf ELSE 0,
                  left |-> Head(rows).left, top |-> Head(rows).top,
                  width |-> Head(rows).width, height |-> Head(rows).height]>>
          ELSE <<>>)
         \o WordLevelDetails(Tail(rows))

\* the query defaults of the endpoint's ocr_* parameters
DefaultOcrSettings ==
    [ocr_language |-> "eng", ocr_page_segmentation_mode |-> 3, ocr_engine_mode |-> 3,
     ocr_apply_preprocessing |-> TRUE, ocr_deskew |-> TRUE, ocr_char_whitelist |-> "None"]

EngineNotFound == "Tesseract OCR engine not found"

\* preprocess_image_for_ocr's except clause: the ValueError for a file
\* Image.open cannot read
PreprocessError(image_path, file) ==
    [type |-> "ValueError",
     message |-> "Could not preprocess image '" \o PathStr(Basename(image_path)) \o "': "
                 \o BackendMessage(file)]

\* the three except clauses of process_image_file
ImageError(file_path, e) ==
    [raised |-> "ValueError",
     message |->
        IF e.type = "TesseractNotFoundError"
        THEN EngineNotFound \o ". Please ensure Tesseract is installed and in your PATH."
        ELSE IF e.type = "RuntimeError"
        THEN "Tesseract runtime error processing image " \o PathStr(Basename(file_path))
             \o ": " \o e.message
        ELSE "Error processing image file " \o PathStr(Basename(file_path))
             \o " with Tesseract: " \o e.type \o " - " \o e.message]

\* process_image_file(file_path, settings), file being what Image.open finds at
\* file_path and faults what the OCR engine does in this run
ProcessImageFile(file_path, file, settings, faults) ==
    IF file.kind # "image"
    THEN ImageError(file_path, PreprocessError(file_path, file))
    ELSE IF "engine_missing" \in faults
    THEN ImageError(file_path, [type |-> "TesseractNotFoundError", message |-> ""])
    ELSE IF "ocr_timeout" \in faults
    THEN ImageError(file_path, [type |-> "RuntimeError",
                                message |-> "Tesseract process timeout"])
    ELSE IF "ocr_unexpected" \in faults
    THEN ImageError(file_path, [type |-> "KeyError", message |-> "'conf'"])
    ELSE LET ocr_data_df == ConfidentRows(file.rows)
         IN [raised |-> "",
             extracted_text |-> ExtractedText(ocr_data_df),
             word_level_details |-> WordLevelDetails(ocr_data_df),
             tables_data |-> <<>>,
             source_basename |-> Basename(file_path),
             ocr_settings_used |->
                [language |-> settings.ocr_language,
                 page_segmentation_mode |-> settings.ocr_page_segmentation_mode,
                 engine_mode |-> settings.ocr_engine_mode,
                 preprocessing_applied |-> settings.ocr_apply_preprocessing,
                 deskew_applied |-> settings.ocr_deskew /\ settings.ocr_apply_preprocessing,
                 char_whitelist |-> settings.ocr_char_whitelist]]

-----------------------------------------------------------------------------
(* Image preprocessing: app/processing/image_processor.py                  *)
(*                                                                         *)
(* An image is its mode (Pillow) or number of channels (OpenCV), its size  *)
(* and its pixels: the pixels of the file followed by the operations that  *)
(* changed them.  Angles are in hundredths of a degree.                    *)

\* pil_img.rotate(angle, expand=True): a quarter turn swaps width and height
Rotate(pil_img, angle) ==
    [pil_img EXCEPT !.size = IF angle \in {90, 270} THEN <<@[2], @[1]>> ELSE @,
                    !.pixels = Append(@, <<"rotate", angle>>)]

IsDigit(c) == c \in {"0", "1", "2", "3", "4", "5", "6", "7", "8", "9"}

DigitValue(c) == CHOOSE d \in 0..9 : ToString(d) = c

CharAt(s, i) == IF i <= Len(s) THEN SubSeq(s, i, i) ELSE ""

\* the first position from i on that holds no whitespace
RECURSIVE SkipSpaces(_, _)
SkipSpaces(s, i) ==
    IF CharAt(s, i) \in {" ", "\t", "\n"} THEN SkipSpaces(s, i + 1) ELSE i

\* int() of the run of digits starting at i, n being the value read so far
RECURSIVE ReadDigits(_, _, _)
ReadDigits(s, i, n) ==
    IF IsDigit(CharAt(s, i)) THEN ReadDigits(s, i + 1, 10 * n + DigitValue(CharAt(s, i)))
    ELSE n

\* re.search(r"Rotate:\s*(\d+)", osd_data) and int(match.group(1)); 0 without a match
RotationAngleOsd(osd_data) ==
    LET matches == {i \in 1..Len(osd_data) :
                        /\ i + 6 <= Len(osd_data)
                        /\ SubSeq(osd_data, i, i + 6) = "Rotate:"
                        /\ IsDigit(CharAt(osd_data, SkipSpaces(osd_data, i + 7)))}
    IN IF matches = {} THEN 0
       ELSE LET i == CHOOSE m \in matches : \A n \in matches : m <= n
            IN ReadDigits(osd_data, SkipSpaces(osd_data, i + 7), 0)

OsdCorrected_ByDetected(pil_img, rotation_angle_osd) ==
    IF rotation_angle_osd \in {90, 180, 270} THEN Rotate(pil_img, rotation_angle_osd)
    ELSE pil_img

\* the rotation branches on rotation_angle_osd
OsdCorrected(pil_img, rotation_angle_osd) ==
    IF rotation_angle_osd = 90 THEN Rotate(pil_img, 270)
    ELSE IF rotation_angle_osd = 180 THEN Rotate(pil_img, 180)
    ELSE IF rotation_angle_osd = 270 THEN Rotate(pil_img, 90)
    ELSE pil_img

\* the try block around image_to_osd: osd is what the call does in this run,
\* its output or the exception it raises; both except clauses only print
Orient(pil_img, osd) ==
    IF osd.kind = "raises"
    THEN [pil_img |-> pil_img,
          log |-> <<IF osd.type \in {"RuntimeError", "TesseractError"} THEN "Warning: Tesseract OSD Runtime error"
                    ELSE "Warning: OSD detection failed or timed out">>]
    ELSE [pil_img |-> OsdCorrected(pil_img, RotationAngleOsd(osd.data)), log |-> <<>>]

\* the conversions to RGB, to a BGR array and to a grayscale array
CvImgBgr(pil_img) ==
    [channels |-> 3, size |-> pil_img.size,
     pixels |-> IF pil_img.mode \in {"RGBA", "P", "L", "1"}
                THEN Append(pil_img.pixels, <<"convert", "RGB">>) ELSE pil_img.pixels]

\* cv2.cvtColor(image, cv2.COLOR_BGR2GRAY)
Gray(image_cv) ==
    [image_cv EXCEPT !.channels = 1, !.pixels = Append(@, <<"gray">>)]

\* the angle deskew rotates by, from the angle of cv2.minAreaRect
CorrectedAngle(angle) == IF angle < -4500 THEN -(9000 + angle) ELSE -angle

Abs(n) == IF n < 0 THEN -n ELSE n

\* deskew(image_cv): skew is what the image gives the angle calculation, an
\* exception in one of its steps, no foreground pixel, or the angle of the
\* minimum-area rectangle.  The except clause calls traceback.print_exc(),
\* and the module does not import traceback.
Deskew(image_cv, skew) ==
    IF skew.kind = "raises"
    THEN [raised |-> "NameError", message |-> "name 'traceback' is not defined"]
    ELSE IF skew.kind = "blank" THEN [raised |-> "", image |-> image_cv]
    ELSE IF Abs(CorrectedAngle(skew.angle)) < 10
    THEN [raised |-> "", image |-> image_cv]
    ELSE [raised |-> "",
          image |-> [image_cv EXCEPT
                        !.pixels = Append(@, <<"warpAffine", CorrectedAngle(skew.angle)>>)]]

\* cv2.threshold(image, 0, 255, cv2.THRESH_BINARY + cv2.THRESH_OTSU)
Binarized(image_cv) == [image_cv EXCEPT !.pixels = Append(@, <<"otsu">>)]

\* Image.fromarray(image_cv).convert('L')
FromArrayL(image_cv) == [mode |-> "L", size |-> image_cv.size, pixels |-> image_cv.pixels]

-----------------------------------------------------------------------------
(* Output formatters: app/output_formatters                                *)

\* dict.get(key, default)
Get(d, key, default) == IF key \in DOMAIN d THEN d[key] ELSE default

\* str.lower() on the extensions of the model
Lower(ext) == IF ext = "PDF" THEN "pdf" ELSE IF ext = "TXT" THEN "txt" ELSE ext

SUPPORTED_IMAGE_EXTENSIONS == {"png", "jpg", "jpeg", "tif", "tiff", "bmp", "webp"}

\* format_content_for_json_schema(processed_data, source_type_hint)
FormatContentForJsonSchema(processed_data, source_type_hint) ==
    IF Lower(source_type_hint) \in SUPPORTED_IMAGE_EXTENSIONS \/ Lower(source_type_hint) = "image"
    THEN [extracted_text |-> Get(processed_data, "extracted_text", <<>>),
          ocr_settings_used |-> Get(processed_data, "ocr_settings_used", <<>>),
          word_level_details |-> Get(processed_data, "word_level_details", <<>>),
          tables |-> Get(processed_data, "tables_data", <<>>)]
    ELSE [extracted_text_with_placeholders |-> Get(processed_data, "text_with_placeholders", <<>>),
          tables |-> Get(processed_data, "tables_data", <<>>)]

\* "\t".join(str(cell).strip() for cell in row); a cell is one word or ""
TabJoined(row) ==
    Join(<<TAB>>, [i \in 1..Len(row) |-> IF row[i] = "" THEN <<>> ELSE <<row[i]>>])

RECURSIVE InsertByPosition(_, _)
InsertByPosition(t, s) ==
    IF s = <<>> THEN <<t>>
    ELSE IF s[Len(s)].position <= t.position THEN s \o <<t>>
    ELSE InsertByPosition(t, SubSeq(s, 1, Len(s) - 1)) \o <<s[Len(s)]>>

RECURSIVE SortedByPosition(_)
\* sorted(tables_list, key=position): stable
SortedByPosition(s) ==
    IF s = <<>> THEN <<>>
    ELSE InsertByPosition(s[Len(s)], SortedByPosition(SubSeq(s, 1, Len(s) - 1)))

RECURSIVE TableTextParts(_)
\* the text parts of the tables: id line, headers if any, data rows, empty line
TableTextParts(tables) ==
    IF tables = <<>> THEN <<>>
    ELSE LET table_obj == Head(tables)
         IN <<<<NL, "---", SP, table_obj.id, SP, "---">>>>
            \o (IF table_obj.headers # <<>> THEN <<TabJoined(table_obj.headers)>> ELSE <<>>)
            \o [i \in 1..Len(table_obj.data) |-> TabJoined(table_obj.data[i])]
            \o << <<>> >>
            \o TableTextParts(Tail(tables))

\* format_to_plain_text(processed_data)
FormatToPlainText(processed_data) ==
    LET tables_list == Get(processed_data, "tables_data", <<>>)
        text_parts ==
            (IF "text_with_placeholders" \in DOMAIN processed_data
             THEN <<processed_data.text_with_placeholders>> ELSE <<>>)
            \o (IF tables_list # <<>>
                THEN <<<<NL, NL, "---", SP, "Referenced", SP, "Table", SP, "Data", SP, "---">>>>
                     \o TableTextParts(SortedByPosition(tables_list))
                ELSE <<>>)
    IN Strip(Join(<<NL>>, text_parts))

-----------------------------------------------------------------------------
(* The /process/document/ endpoint: app/main.py                            *)
(*                                                                         *)
(* A request is a record of the handler's locals and its position (pc).    *)
(* The handler calls process_pdf_file(file_path, settings=...) and         *)
(* format_to_plain_text(processed_data, source_type_hint=...): the         *)
(* functions taking these keywords are the ones of pdf_processor.py and    *)
(* to_plain_text.py with the keyword left unused.  The functions of        *)
(* pdf_processor.py and to_plain_text.py as they stand take no such        *)
(* keyword, and the call raises TypeError: a request's field processors    *)
(* says which of the two the handler is bound to, "keyword" or "source".   *)
(* extraction_date, the clock's reading, is left out of the response.      *)

PDF_OCR_FALLBACK_MIN_TEXT_THRESHOLD == 100

PROJECT_UPLOAD_DIRECTORY == "temp_uploads"

NonePath == [dir |-> "None", stem |-> "", ext |-> ""]
NoFilename == [dir |-> "", stem |-> "", ext |-> ""]
NoException == [type |-> "None"]
NoResponse == [status_code |-> 0]

\* get_file_extension(filename): the text after the last dot, lowercased
GetFileExtension(filename) == Lower(filename.ext)

\* os.path.join(PROJECT_UPLOAD_DIRECTORY, os.path.basename(original_filename))
FilePath(original_filename) == [original_filename EXCEPT !.dir = PROJECT_UPLOAD_DIRECTORY]

\* os.path.join(PROJECT_UPLOAD_DIRECTORY, f"{base_fn}_ocr_page_{page_to_ocr_idx}.png")
TempOcrImagePath(file_path, page_to_ocr_idx) ==
    [dir |-> PROJECT_UPLOAD_DIRECTORY,
     stem |-> file_path.stem \o "_ocr_page_" \o ToString(page_to_ocr_idx),
     ext |-> "png"]

\* what open()/fitz.open()/Image.open() find at a path
FileAt(files, path) == IF path \in DOMAIN files THEN files[path] ELSE MissingFile

\* os.remove(path)
Removed(files, path) == [q \in DOMAIN files \ {path} |-> files[q]]

\* process_pdf_file(file_path, settings=pdf_extraction_settings)
ProcessPdfFileSettings(file_path, file, settings) == ProcessPdfFile(file_path, file)

\* format_to_plain_text(processed_data, source_type_hint=hint_for_text_format)
FormatToPlainTextHint(processed_data, source_type_hint) == FormatToPlainText(processed_data)

\* a call with a keyword argument the function's signature does not declare
UnexpectedKeyword(function, keyword) ==
    [raised |-> "TypeError",
     message |-> function \o "() got an unexpected keyword argument '" \o keyword \o "'"]

\* an int query parameter
IntParam(n) == [kind |-> "int", v |-> n]

\* pdf_extraction_settings of the query parameters' defaults
DefaultPdfSettings ==
    [table_strategy |-> "lines_strict", text_tolerance |-> None, remove_empty_rows |-> FALSE]

\* the values the query parameters pdf_table_strategy, pdf_text_tolerance and
\* pdf_remove_empty_rows admit (one tolerance stands for the integers from 1)
PdfSettings ==
    {[table_strategy |-> s, text_tolerance |-> t, remove_empty_rows |-> b] :
        s \in {"lines_strict", "text", "lines", "pymupdf_default"},
        t \in {None, IntParam(3)},
        b \in BOOLEAN}

\* the locals of process_document_endpoint before the try block
NewRequest(upload, output_format) ==
    LET original_filename ==
            IF upload.filename = NoFilename
            THEN [dir |-> "", stem |-> "unknown_file", ext |-> "tmp"]
            ELSE upload.filename
    IN [pc |-> "stage",
        upload |-> upload,
        output_format |-> output_format,
        processors |-> "keyword",
        pdf_extraction_settings |-> DefaultPdfSettings,
        original_filename |-> original_filename,
        file_extension |-> GetFileExtension(original_filename),
        file_path |-> FilePath(original_filename),
        processed_data |-> NoResult,
        direct_pdf_data |-> NoResult,
        ocr_result_data |-> NoResult,
        pdf_processing_method_indication |-> "None",
        pdf_processed_via_ocr |-> FALSE,
        temp_ocr_image_path |-> NonePath,
        pix |-> None,
        saved |-> FALSE,
        exc |-> NoException,
        calls |-> <<>>,
        log |-> <<>>,
        response |-> NoResponse]

\* with open(file_path, "wb") as buffer: shutil.copyfileobj(file.file, buffer)
StageUpload(r, files) ==
    [r |-> [r EXCEPT !.pc = "dispatch"],
     fs |-> (r.file_path :> r.upload.content) @@ files]

NeedsOcrFallback_AtMost(extracted_text_direct) ==
    StrLen(Strip(extracted_text_direct)) <= PDF_OCR_FALLBACK_MIN_TEXT_THRESHOLD

\* len(extracted_text_direct.strip()) < PDF_OCR_FALLBACK_MIN_TEXT_THRESHOLD
NeedsOcrFallback(extracted_text_direct) ==
    StrLen(Strip(extracted_text_direct)) < PDF_OCR_FALLBACK_MIN_TEXT_THRESHOLD

\* an exception leaving a processor call of the try block
Raised(r, data) ==
    [r EXCEPT !.pc = "respond",
              !.exc = [type |-> data.raised, message |-> data.message]]

\* the calls process_pdf_file makes to the table finder: page.find_tables(),
\* without arguments, once for each page
FindTablesCalls(file) ==
    [k \in 1..Len(file.pages) |-> [op |-> "find_tables", page |-> k - 1, kwargs |-> <<>>]]

\* the if/elif chain on file_extension, up to the fallback test
Dispatch(r, files, faults) ==
    LET file == FileAt(files, r.file_path)
    IN IF r.file_extension = "docx"
       THEN LET data == ProcessDocxFile(r.file_path, file)
                called == [r EXCEPT !.calls = Append(@, [op |-> "process_docx_file"])]
            IN IF data.raised # "" THEN Raised(called, data)
               ELSE [called EXCEPT !.pc = "respond", !.processed_data = data]
       ELSE IF r.file_extension = "pdf"
       THEN LET data == IF r.processors = "source"
                        THEN UnexpectedKeyword("process_pdf_file", "settings")
                        ELSE ProcessPdfFileSettings(r.file_path, file, r.pdf_extraction_settings)
                called == [r EXCEPT !.calls = Append(@, [op |-> "process_pdf_file"])]
            IN IF data.raised # "" THEN Raised(called, data)
               ELSE [called EXCEPT
                        !.calls = @ \o FindTablesCalls(file),
                        !.direct_pdf_data = data,
                        !.processed_data = data,
                        !.pdf_processing_method_indication = "direct_text_extraction",
                        !.log = Append(@, IF NeedsOcrFallback(data.text_with_placeholders)
                                          THEN <<"Attempting OCR fallback for first page">>
                                          ELSE <<"Skipping OCR fallback">>),
                        !.pc = IF NeedsOcrFallback(data.text_with_placeholders)
                               THEN "fb_open" ELSE "respond"]
       ELSE IF r.file_extension \in SUPPORTED_IMAGE_EXTENSIONS
       THEN LET data == ProcessImageFile(r.file_path, file, DefaultOcrSettings, faults)
                called == [r EXCEPT !.calls = Append(@, [op |-> "process_image_file",
                                                         path |-> r.file_path])]
            IN IF data.raised # "" THEN Raised(called, data)
               ELSE [called EXCEPT !.pc = "respond", !.processed_data = data]
       ELSE [r EXCEPT !.pc = "respond",
                      !.exc = [type |-> "HTTPException", status_code |-> 400,
                               detail |-> "Unsupported file type: '" \o r.file_extension
                                          \o "'. Supported: docx, pdf, "
                                          \o "bmp, jpeg, jpg, png, tif, tiff, webp."]]

FallbackFailed_Propagates(r, ocr_err) ==
    [r EXCEPT !.pc = "fb_finally", !.exc = ocr_err]

\* except Exception as ocr_err: logged, the direct extraction results are kept
FallbackFailed(r, ocr_err) ==
    [r EXCEPT !.pc = "fb_finally",
              !.log = Append(@, <<"PDF OCR fallback attempt failed", ocr_err.type>>)]

\* the fallback's try block up to get_pixmap: fitz.open(file_path), the test on
\* the number of pages, the scratch image's path and the rendering of page 0
FallbackOpen(r, files, faults) ==
    LET pdf_doc_fitz == FileAt(files, r.file_path)
        page_to_ocr_idx == 0
        named == [r EXCEPT !.temp_ocr_image_path = TempOcrImagePath(r.file_path, page_to_ocr_idx)]
    IN IF pdf_doc_fitz.kind # "pdf" \/ "reopen" \in faults
       THEN FallbackFailed(r, [type |-> "FileDataError", message |-> "fitz.open"])
       ELSE IF Len(pdf_doc_fitz.pages) > 0
       THEN IF "render" \in faults
            THEN FallbackFailed(named, [type |-> "RuntimeError", message |-> "get_pixmap"])
            ELSE [named EXCEPT
                     !.pc = "fb_save",
                     !.pix = [kind |-> "image",
                              rows |-> pdf_doc_fitz.pages[page_to_ocr_idx + 1].raster],
                     !.calls = Append(@, [op |-> "get_pixmap", page |-> page_to_ocr_idx,
                                          dpi |-> 300])]
       ELSE [r EXCEPT !.pc = "fb_finally",
                      !.log = Append(@, <<"PDF OCR fallback skipped", "no pages">>)]

\* pix.save(temp_ocr_image_path); a failing save leaves a truncated file behind
FallbackSave(r, files, faults) ==
    IF "save" \in faults
    THEN [r |-> FallbackFailed([r EXCEPT !.saved = TRUE],
                               [type |-> "RuntimeError", message |-> "pix.save"]),
          fs |-> (r.temp_ocr_image_path :> [kind |-> "truncated"]) @@ files]
    ELSE [r |-> [r EXCEPT !.pc = "fb_ocr", !.saved = TRUE],
          fs |-> (r.temp_ocr_image_path :> r.pix) @@ files]

OcrTextUsable_Always(ocr_result_data) == TRUE

\* if ocr_result_data.get("extracted_text", "").strip():
OcrTextUsable(ocr_result_data) ==
    Strip(Get(ocr_result_data, "extracted_text", <<>>)) # <<>>

\* process_image_file(temp_ocr_image_path, ...) and the choice of the result
FallbackOcr(r, files, faults) ==
    LET ocr_result_data ==
            ProcessImageFile(r.temp_ocr_image_path, FileAt(files, r.temp_ocr_image_path),
                             DefaultOcrSettings, faults)
        called == [r EXCEPT !.calls = Append(@, [op |-> "process_image_file",
                                                 path |-> r.temp_ocr_image_path])]
    IN IF ocr_result_data.raised # ""
       THEN FallbackFailed(called, [type |-> ocr_result_data.raised,
                                    message |-> ocr_result_data.message])
       ELSE IF OcrTextUsable(ocr_result_data)
       THEN [called EXCEPT !.pc = "fb_finally",
                           !.ocr_result_data = ocr_result_data,
                           !.processed_data = ocr_result_data,
                           !.pdf_processing_method_indication = "ocr_extraction",
                           !.pdf_processed_via_ocr = TRUE]
       ELSE [called EXCEPT !.pc = "fb_finally",
                           !.ocr_result_data = ocr_result_data,
                           !.log = Append(@, <<"PDF OCR fallback yielded no text">>)]

FallbackFinally_KeepsImage(r, files, faults) ==
    [r |-> [r EXCEPT !.pc = "respond"], fs |-> files]

\* finally: remove the scratch image if its path is set and the file exists
FallbackFinally(r, files, faults) ==
    IF r.temp_ocr_image_path # NonePath /\ r.temp_ocr_image_path \in DOMAIN files
    THEN IF "remove_scratch" \in faults
         THEN [r |-> [r EXCEPT !.pc = "respond",
                               !.log = Append(@, <<"Error removing temp OCR image",
                                                   r.temp_ocr_image_path>>)],
               fs |-> files]
         ELSE [r |-> [r EXCEPT !.pc = "respond"],
               fs |-> Removed(files, r.temp_ocr_image_path)]
    ELSE [r |-> [r EXCEPT !.pc = "respond"], fs |-> files]

ErrorResponse_NoReraise(exc) ==
    IF exc.type = "ValueError"
    THEN IF Contains(exc.message, EngineNotFound)
         THEN [status_code |-> 501, detail |-> "OCR Engine not available: " \o exc.message]
         ELSE [status_code |-> 422, detail |-> "Processing error: " \o exc.message]
    ELSE [status_code |-> 500,
          detail |-> "An unexpected error occurred during document processing."]

\* the except clauses of the handler: the HTTP error an exception becomes
ErrorResponse(exc) ==
    IF exc.type = "ValueError"
    THEN IF Contains(exc.message, EngineNotFound)
         THEN [status_code |-> 501, detail |-> "OCR Engine not available: " \o exc.message]
         ELSE [status_code |-> 422, detail |-> "Processing error: " \o exc.message]
    ELSE IF exc.type = "HTTPException"
    THEN [status_code |-> exc.status_code, detail |-> exc.detail]
    ELSE [status_code |-> 500,
          detail |-> "An unexpected error occurred during document processing."]

\* the response built from processed_data
SuccessResponse(r) ==
    LET base == [status_code |-> 200,
                 filename |-> r.original_filename,
                 format |-> r.output_format,
                 source_type |-> r.file_extension,
                 pdf_processing_method |-> r.pdf_processing_method_indication]
    IN IF r.output_format = "text"
       THEN LET hint_for_text_format ==
                    IF r.file_extension = "pdf" /\ r.pdf_processed_via_ocr
                    THEN "image" ELSE r.file_extension
            IN base @@ [model |-> "TextResponseContent",
                        content |-> FormatToPlainTextHint(r.processed_data, hint_for_text_format)]
       ELSE IF r.file_extension = "pdf" /\ r.pdf_processed_via_ocr
       THEN base @@ [model |-> "OCRJSONResponse",
                     content |-> FormatContentForJsonSchema(r.processed_data, "image")]
       ELSE IF r.file_extension \in SUPPORTED_IMAGE_EXTENSIONS
       THEN base @@ [model |-> "OCRJSONResponse",
                     content |-> FormatContentForJsonSchema(r.processed_data, r.file_extension)]
       ELSE base @@ [model |-> "DocumentJSONResponse",
                     content |-> FormatContentForJsonSchema(r.processed_data, r.file_extension)]

\* the end of the try block and its except clauses
Respond(r) ==
    [r EXCEPT !.pc = "cleanup",
              !.response =
                    IF r.exc # NoException THEN ErrorResponse(r.exc)
                    ELSE IF r.processed_data = NoResult
                    THEN [status_code |-> 500,
                          detail |-> "Processing failed to return data from the processor."]
                    ELSE IF r.processors = "source" /\ r.output_format = "text"
                    THEN ErrorResponse(
                            [type |-> "TypeError",
                             message |-> UnexpectedKeyword("format_to_plain_text",
                                                           "source_type_hint").message])
                    ELSE SuccessResponse(r)]

Cleanup_KeepsFile(r, files, faults) ==
    [r |-> [r EXCEPT !.pc = "done"], fs |-> files]

\* finally: remove the staged upload if it exists
Cleanup(r, files, faults) ==
    IF r.file_path \in DOMAIN files
    THEN IF "remove_staged" \in faults
         THEN [r |-> [r EXCEPT !.pc = "done",
                               !.log = Append(@, <<"Error deleting main temporary file",
                                                   r.file_path>>)],
               fs |-> files]
         ELSE [r |-> [r EXCEPT !.pc = "done"], fs |-> Removed(files, r.file_path)]
    ELSE [r |-> [r EXCEPT !.pc = "done"], fs |-> files]

-----------------------------------------------------------------------------
(* The uploads of the endpoint runs                                        *)

Word(w, conf) ==
    [text |-> Str(<<w>>), conf |-> conf, left |-> 0, top |-> 0, width |-> 1, height |-> 1]

\* rows of image_to_data: two words around a layout row (confidence -1)
RowsHello == <<Word("Hello", 96), [Word("", -1) EXCEPT !.text = NaN], Word("world", 91)>>
RowsOther == <<Word("other", 90)>>
\* a layout row and a row of blank text: nothing readable
RowsBlank == <<[Word("", -1) EXCEPT !.text = NaN], [Word("", 95) EXCEPT !.text = Str(<<SP>>)]>>

TextBlock(atoms) == [bbox |-> <<0, 0, 1, 1>>, text_content |-> atoms, block_type |-> 0]

\* a page of a PDF: what get_text and find_tables return, and raster, the rows
\* the OCR engine reads off the page's rendering
PdfDoc(text_blocks, tables, raster) ==
    [kind |-> "pdf",
     pages |-> <<[text_blocks |-> text_blocks, tables |-> tables, raster |-> raster]>>]

\* 100 and 99 characters of text
Text100 == <<"xxxxxxxxxxxxxxxxxxxxxxxxxxxxxxxxxxxxxxxxxxxxxxxxxxxxxxxxxxxxxxxxxxxxxxxxxxxxxxxxxxxxxxxxxxxxxxxxxxxx">>
Text99 == <<"yyyyyyyyyyyyyyyyyyyyyyyyyyyyyyyyyyyyyyyyyyyyyyyyyyyyyyyyyyyyyyyyyyyyyyyyyyyyyyyyyyyyyyyyyyyyyyyyyyy">>

NativePdf == PdfDoc(<<TextBlock(Text100)>>, <<>>, RowsOther)
NearPdf == PdfDoc(<<TextBlock(<<SP>> \o Text99 \o <<NL>>)>>, <<>>, RowsOther)
ScannedPdf == PdfDoc(<<>>, <<>>, RowsHello)
BlankScanPdf == PdfDoc(<<>>, <<>>, RowsBlank)
EmptyPdf == [kind |-> "pdf", pages |-> <<>>]
TablePdf ==
    PdfDoc(<<TextBlock(<<"A">>)>>,
           <<[bbox |-> <<0, 1, 1, 2>>, rows |-> <<<<Str("H1"), None>>, <<Str("a"), Str("b")>>>>]>>,
           RowsHello)

\* more than 100 characters of text and a table with a row of empty cells
LongPdf ==
    PdfDoc(<<TextBlock(Text100 \o <<SP, "more">>)>>,
           <<[bbox |-> <<0, 1, 1, 2>>,
              rows |-> <<<<Str("H1"), Str("H2")>>, <<None, Str("")>>, <<Str("a"), Str("b")>>>>]>>,
           RowsOther)

\* a scan of two pages with a little text on both and a table on the second
TwoPagePdf ==
    [kind |-> "pdf",
     pages |-> <<[text_blocks |-> <<TextBlock(<<"A">>)>>, tables |-> <<>>, raster |-> RowsHello],
                 [text_blocks |-> <<TextBlock(<<"B">>)>>,
                  tables |-> <<[bbox |-> <<0, 1, 1, 2>>,
                                rows |-> <<<<Str("H1"), Str("H2")>>, <<Str("a"), Str("b")>>>>]>>,
                  raster |-> RowsOther]>>]

EndpointPdfs ==
    {NativePdf, NearPdf, ScannedPdf, BlankScanPdf, EmptyPdf, TablePdf, LongPdf, TwoPagePdf}

EndpointDocx ==
    {[kind |-> "docx", body |-> <<[tag |-> "w:p", text |-> <<"A">>]>>],
     [kind |-> "docx", body |-> <<[tag |-> "w:p", text |-> <<"A">>],
                                  [tag |-> "w:tbl", rows |-> <<<<"H1", "H2">>, <<"D1", "D2">>>>]>>]}

EndpointImages == {[kind |-> "image", rows |-> RowsHello], [kind |-> "image", rows |-> RowsBlank]}

Filename(dir, stem, ext) == [dir |-> dir, stem |-> stem, ext |-> ext]

\* client file names: by type, with a directory, upper case, without a dot,
\* none, and the name of another upload's scratch image
Filenames ==
    {Filename("", "a", "pdf"), Filename("docs", "a", "PDF"), Filename("", "b", "pdf"),
     Filename("", "a", "docx"), Filename("", "a", "png"), Filename("", "a", "txt"),
     Filename("", "a", "TXT"), Filename("", "a", ""), NoFilename,
     Filename("", "a_ocr_page_0", "png"),
     Filename("", "Tesseract OCR engine not found", "png")}

\* what the environment can make fail
Faults == {"reopen", "render", "save", "engine_missing", "ocr_timeout", "ocr_unexpected",
           "remove_scratch", "remove_staged"}

-----------------------------------------------------------------------------
(* Endpoint runs: every step of the handler that touches the upload        *)
(* directory is one action of the request taking it                        *)

Uploads ==
    {[filename |-> f, content |-> c] :
        f \in Filenames,
        c \in EndpointPdfs \cup EndpointDocx \cup EndpointImages \cup {[kind |-> "garbage"]}}

NoInput == [path |-> NonePath, file |-> MissingFile]

\* one request, in an environment failing in any way
InitEndpoint ==
    /\ input = NoInput
    /\ result = NoResult
    /\ reqs \in {<<NewRequest(u, f)>> : u \in Uploads, f \in {"json", "text"}}
    /\ fs = <<>>
    /\ env \in SUBSET Faults

\* two requests of one or of two worker processes, nothing failing
ConcurrentUploads ==
    {[filename |-> f, content |-> c] :
        f \in {Filename("", "a", "pdf"), Filename("", "b", "pdf")},
        c \in {ScannedPdf, NearPdf, NativePdf}}
    \cup {[filename |-> Filename("", "a_ocr_page_0", "png"), content |-> c] : c \in EndpointImages}

InitConcurrent ==
    /\ input = NoInput
    /\ result = NoResult
    /\ reqs \in [1..2 -> {NewRequest(u, "json") : u \in ConcurrentUploads}]
    /\ fs = <<>>
    /\ env = {}

\* the request takes the step out (its new locals and the new directory)
Takes(i, out) ==
    /\ reqs' = [reqs EXCEPT ![i] = out.r]
    /\ fs' = out.fs
    /\ UNCHANGED <<input, result, env>>

DoStage(i) ==
    /\ reqs[i].pc = "stage"
    /\ Takes(i, StageUpload(reqs[i], fs))

DoDispatch(i) ==
    /\ reqs[i].pc = "dispatch"
    /\ Takes(i, [r |-> Dispatch(reqs[i], fs, env), fs |-> fs])

DoFallbackOpen(i) ==
    /\ reqs[i].pc = "fb_open"
    /\ Takes(i, [r |-> FallbackOpen(reqs[i], fs, env), fs |-> fs])

DoFallbackSave(i) ==
    /\ reqs[i].pc = "fb_save"
    /\ Takes(i, FallbackSave(reqs[i], fs, env))

DoFallbackOcr(i) ==
    /\ reqs[i].pc = "fb_ocr"
    /\ Takes(i, [r |-> FallbackOcr(reqs[i], fs, env), fs |-> fs])

DoFallbackFinally(i) ==
    /\ reqs[i].pc = "fb_finally"
    /\ Takes(i, FallbackFinally(reqs[i], fs, env))

DoRespond(i) ==
    /\ reqs[i].pc = "respond"
    /\ Takes(i, [r |-> Respond(reqs[i]), fs |-> fs])

DoCleanup(i) ==
    /\ reqs[i].pc = "cleanup"
    /\ Takes(i, Cleanup(reqs[i], fs, env))

NextEndpoint ==
    \E i \in DOMAIN reqs :
        \/ DoStage(i)
        \/ DoDispatch(i)
        \/ DoFallbackOpen(i)
        \/ DoFallbackSave(i)
        \/ DoFallbackOcr(i)
        \/ DoFallbackFinally(i)
        \/ DoRespond(i)
        \/ DoCleanup(i)

SpecEndpoint == InitEndpoint /\ [][NextEndpoint]_vars

SpecConcurrent == InitConcurrent /\ [][NextEndpoint]_vars

-----------------------------------------------------------------------------
(* Preprocessing runs: process_image_file on an image file, with what the  *)
(* orientation detection and the angle calculation do in the run           *)

ImagePath == [dir |-> "fixtures", stem |-> "scan", ext |-> "png"]

ImageModes == {"RGB", "RGBA", "P", "L", "1"}

ImageFiles ==
    {[kind |-> "image", rows |-> RowsHello, mode |-> m, size |-> <<2, 1>>,
      pixels |-> <<<<"file">>>>] : m \in ImageModes}

\* outputs of image_to_osd, and the exceptions it raises (TesseractError and
\* the timeout's RuntimeError are RuntimeErrors, the others are not)
OsdOutcomes ==
    {[kind |-> "output", data |-> d] :
        d \in {"Rotate: 0\n",
               "Orientation in degrees: 270\nRotate: 90\nOrientation confidence: 2.5\n",
               "Rotate: 180", "Rotate:270", "Rotate: 45", "Rotate: 900", "Rotate: -90",
               "Page number: 0\n", ""}}
    \cup {[kind |-> "raises", type |-> t] :
            t \in {"RuntimeError", "TesseractError", "TesseractNotFoundError", "Exception"}}

\* angles of cv2.minAreaRect, in hundredths of a degree
RawAngles ==
    {-9000, -8995, -8990, -8000, -6500, -6499, -6000, -4501, -4500, -3000, -2501, -2500,
     -1000, -10, -9, 0, 9, 10, 2500, 3000, 4500, 6000, 9000}

Skews ==
    {[kind |-> "angle", angle |-> a] : a \in RawAngles}
    \cup {[kind |-> "blank"], [kind |-> "raises"]}

InitPreprocess ==
    /\ input \in {[path |-> ImagePath, file |-> f, osd |-> o, skew |-> k,
                    apply_preprocessing |-> a, deskew_image_flag |-> d] :
                        f \in ImageFiles \cup {MissingFile}, o \in OsdOutcomes, k \in Skews,
                        a \in BOOLEAN, d \in BOOLEAN}
    /\ result = NoResult
    /\ reqs = <<>>
    /\ fs = <<>>
    /\ env = {}

\* preprocess_image_for_ocr's except clause
PreprocessRaised(message) ==
    [result EXCEPT !.pc = "raised", !.raised = "ValueError",
                   !.message = "Could not preprocess image '"
                               \o PathStr(Basename(input.path)) \o "': " \o message]

\* Image.open(image_path)
PreOpen ==
    /\ result = NoResult
    /\ result' =
        IF input.file.kind # "image"
        THEN [pc |-> "raised", raised |-> "ValueError",
              message |-> PreprocessError(input.path, input.file).message]
        ELSE [pc |-> "osd", raised |-> "", message |-> "",
              pil_img |-> [mode |-> input.file.mode, size |-> input.file.size,
                           pixels |-> input.file.pixels],
              cv_img_bgr |-> None, cv_img_gray |-> None, processed_cv_img |-> None,
              log |-> <<>>, returned |-> None]
    /\ UNCHANGED <<input, reqs, fs, env>>

PreOrient_Propagates ==
    /\ result # NoResult
    /\ result.pc = "osd"
    /\ LET out == Orient(result.pil_img, input.osd)
       IN result' = IF input.osd.kind = "raises" THEN PreprocessRaised(input.osd.type)
                    ELSE [result EXCEPT !.pc = "convert", !.pil_img = out.pil_img,
                                        !.log = @ \o out.log]
    /\ UNCHANGED <<input, reqs, fs, env>>

\* the orientation detection and the rotation that corrects it
PreOrient ==
    /\ result # NoResult
    /\ result.pc = "osd"
    /\ LET out == Orient(result.pil_img, input.osd)
       IN result' = [result EXCEPT !.pc = "convert", !.pil_img = out.pil_img,
                                   !.log = @ \o out.log]
    /\ UNCHANGED <<input, reqs, fs, env>>

PreConvert_AlwaysPreprocesses ==
    /\ result # NoResult
    /\ result.pc = "convert"
    /\ LET cv_img_bgr == CvImgBgr(result.pil_img)
           cv_img_gray == Gray(cv_img_bgr)
       IN result' = [result EXCEPT
                        !.pc = "deskew",
                        !.cv_img_bgr = cv_img_bgr,
                        !.cv_img_gray = cv_img_gray,
                        !.processed_cv_img = cv_img_gray]
    /\ UNCHANGED <<input, reqs, fs, env>>

\* the conversions to OpenCV arrays and the test of apply_preprocessing
PreConvert ==
    /\ result # NoResult
    /\ result.pc = "convert"
    /\ LET cv_img_bgr == CvImgBgr(result.pil_img)
           cv_img_gray == Gray(cv_img_bgr)
       IN result' = [result EXCEPT
                        !.pc = IF input.apply_preprocessing THEN "deskew" ELSE "return_gray",
                        !.cv_img_bgr = cv_img_bgr,
                        !.cv_img_gray = cv_img_gray,
                        !.processed_cv_img = cv_img_gray]
    /\ UNCHANGED <<input, reqs, fs, env>>

\* if deskew_image_flag: deskew(cv_img_bgr.copy()) and its conversion to gray
PreDeskew ==
    /\ result # NoResult
    /\ result.pc = "deskew"
    /\ result' =
        IF input.deskew_image_flag
        THEN LET deskewed_cv_img_output == Deskew(result.cv_img_bgr, input.skew)
             IN IF deskewed_cv_img_output.raised # ""
                THEN PreprocessRaised(deskewed_cv_img_output.message)
                ELSE [result EXCEPT
                        !.pc = "binarize",
                        !.log = Append(@, "DEBUG: Applying fine deskewing"),
                        !.processed_cv_img =
                            IF deskewed_cv_img_output.image.channels = 3
                            THEN Gray(deskewed_cv_img_output.image)
                            ELSE deskewed_cv_img_output.image]
        ELSE [result EXCEPT !.pc = "binarize",
                            !.log = Append(@, "DEBUG: Fine deskewing skipped")]
    /\ UNCHANGED <<input, reqs, fs, env>>

\* the binarization and the return of its result
PreBinarize ==
    /\ result # NoResult
    /\ result.pc = "binarize"
    /\ result' = [result EXCEPT !.pc = "returned",
                                !.returned = FromArrayL(Binarized(result.processed_cv_img))]
    /\ UNCHANGED <<input, reqs, fs, env>>

\* else: return Image.fromarray(cv_img_gray).convert('L')
PreReturnGray ==
    /\ result # NoResult
    /\ result.pc = "return_gray"
    /\ result' = [result EXCEPT !.pc = "returned",
                                !.returned = FromArrayL(result.cv_img_gray)]
    /\ UNCHANGED <<input, reqs, fs, env>>

\* process_image_file after preprocess_image_for_ocr: the OCR of the image
\* returned, or the except clause for the ValueError raised; an engine that
\* was not found for the orientation detection is not found for the OCR
PreOcr ==
    /\ result # NoResult
    /\ result.pc \in {"returned", "raised"}
    /\ result' =
        IF result.pc = "raised"
        THEN [pc |-> "done", preprocessed |-> result,
              data |-> ImageError(input.path, [type |-> "ValueError",
                                               message |-> result.message])]
        ELSE [pc |-> "done", preprocessed |-> result,
              data |-> ProcessImageFile(
                            input.path, input.file,
                            [DefaultOcrSettings EXCEPT
                                !.ocr_apply_preprocessing = input.apply_preprocessing,
                                !.ocr_deskew = input.deskew_image_flag],
                            IF input.osd.kind = "raises"
                               /\ input.osd.type = "TesseractNotFoundError"
                            THEN {"engine_missing"} ELSE {})]
    /\ UNCHANGED <<input, reqs, fs, env>>

NextPreprocess ==
    PreOpen \/ PreOrient \/ PreConvert \/ PreDeskew \/ PreBinarize \/ PreReturnGray \/ PreOcr

SpecPreprocess == InitPreprocess /\ [][NextPreprocess]_vars

-----------------------------------------------------------------------------
(* OCR runs: process_image_file on a readable image, with the rows         *)
(* image_to_data reads off it                                              *)

\* rows of image_to_data: words, a word of confidence -1, a layout row (no
\* text, confidence -1), a word row without text and a word row of blank text
OcrRows ==
    {Word("Hello", 96), Word("world", 91), Word("x", -1),
     [Word("", -1) EXCEPT !.text = NaN],
     [Word("", 95) EXCEPT !.text = NaN],
     [Word("", 95) EXCEPT !.text = Str(<<SP>>)]}

InitOcr ==
    /\ input \in {[path |-> ImagePath, file |-> [kind |-> "image", rows |-> rows]] :
                    rows \in UNION {[1..n -> OcrRows] : n \in 0..MaxRows}}
    /\ result = NoResult
    /\ reqs = <<>>
    /\ fs = <<>>
    /\ env \in {{}, {"engine_missing"}, {"ocr_timeout"}, {"ocr_unexpected"}}

\* process_image_file(file_path, settings)
OcrRun ==
    /\ result = NoResult
    /\ result' = ProcessImageFile(input.path, input.file, DefaultOcrSettings, env)
    /\ UNCHANGED <<input, reqs, fs, env>>

NextOcr == OcrRun

SpecOcr == InitOcr /\ [][NextOcr]_vars

\* one request of the handler bound to the processors as they stand, with any
\* PDF table settings; the fallback block lies behind the call that raises
InitSource ==
    /\ input = NoInput
    /\ result = NoResult
    /\ reqs \in {<<[NewRequest(u, f) EXCEPT !.processors = "source",
                                            !.pdf_extraction_settings = st]>> :
                    u \in Uploads, f \in {"json", "text"}, st \in PdfSettings}
    /\ fs = <<>>
    /\ env \in SUBSET {"engine_missing", "remove_staged"}

NextSource ==
    \E i \in DOMAIN reqs :
        \/ DoStage(i)
        \/ DoDispatch(i)
        \/ DoRespond(i)
        \/ DoCleanup(i)

SpecSource == InitSource /\ [][NextSource]_vars

-----------------------------------------------------------------------------
(* Reading a request                                                       *)

\* the request is past the fallback block (or never entered it)
PastFallback(r) == r.pc \in {"respond", "cleanup", "done"}

\* direct extraction of the PDF returned a result
DirectReturned(r) == r.file_extension = "pdf" /\ r.direct_pdf_data.raised = ""

\* the stripped length of the direct text is below 100
ShortText(r) == StrLen(Strip(r.direct_pdf_data.text_with_placeholders)) < 100

RenderCall == [op |-> "get_pixmap", page |-> 0, dpi |-> 300]
OcrCall(r) == [op |-> "process_image_file", path |-> TempOcrImagePath(r.file_path, 0)]

Renders(r) == \E k \in 1..Len(r.calls) : r.calls[k].op = "get_pixmap"
RunsOcr(r) == \E k \in 1..Len(r.calls) : r.calls[k].op = "process_image_file"

\* page 0 was rendered at 300 DPI and then handed to process_image_file
AttemptedOnPageZero(r) ==
    \E j, k \in 1..Len(r.calls) : j < k /\ r.calls[j] = RenderCall /\ r.calls[k] = OcrCall(r)

Returns(r, data, method) ==
    /\ r.response.status_code = 200
    /\ r.response.pdf_processing_method = method
    /\ r.response.content =
        IF r.output_format = "text" THEN FormatToPlainText(data)
        ELSE IF method = "ocr_extraction"
        THEN [extracted_text |-> data.extracted_text,
              ocr_settings_used |-> data.ocr_settings_used,
              word_level_details |-> data.word_level_details,
              tables |-> data.tables_data]
        ELSE [extracted_text_with_placeholders |-> data.text_with_placeholders,
              tables |-> data.tables_data]

\* the request holds the result data with the method indication, and returns
\* it once it has responded
ResultIs(r, data, method) ==
    /\ r.exc = NoException
    /\ r.processed_data = data
    /\ r.pdf_processing_method_indication = method
    /\ r.pc \in {"cleanup", "done"} => Returns(r, data, method)

\* the fallback of the request ran process_image_file, which returned
OcrReturned(r) == DirectReturned(r) /\ r.ocr_result_data.raised = ""

FallbackRaises(r) ==
    /\ DirectReturned(r)
    /\ ShortText(r)
    /\ \/ "reopen" \in env
       \/ /\ Len(r.upload.content.pages) > 0
          /\ env \cap {"render", "save", "engine_missing", "ocr_timeout", "ocr_unexpected"} # {}

CreatedScratch(r) == r.saved /\ r.temp_ocr_image_path # NonePath

LoggedRemovalError(r) ==
    \E k \in 1..Len(r.log) :
        r.log[k] = <<"Error removing temp OCR image", r.temp_ocr_image_path>>

FinallyKeepsResult ==
    \A i \in DOMAIN reqs :
        (reqs[i].pc = "fb_finally" /\ reqs'[i].pc # "fb_finally") =>
            /\ reqs'[i].processed_data = reqs[i].processed_data
            /\ reqs'[i].pdf_processing_method_indication = reqs[i].pdf_processing_method_indication
            /\ reqs'[i].pdf_processed_via_ocr = reqs[i].pdf_processed_via_ocr
            /\ reqs'[i].exc = reqs[i].exc
            /\ reqs'[i].exc = NoException

\* once the fallback block has finished, the scratch image it created is gone
\* unless its deletion failed, and a failed deletion is logged
ScratchImageGoneOrLogged ==
    \A i \in DOMAIN reqs :
        (CreatedScratch(reqs[i]) /\ PastFallback(reqs[i])) =>
            IF "remove_scratch" \in env
            THEN LoggedRemovalError(reqs[i])
            ELSE reqs[i].temp_ocr_image_path \notin DOMAIN fs

StepAlone(r, files) ==
    CASE r.pc = "stage" -> StageUpload(r, files)
      [] r.pc = "dispatch" -> [r |-> Dispatch(r, files, {}), fs |-> files]
      [] r.pc = "fb_open" -> [r |-> FallbackOpen(r, files, {}), fs |-> files]
      [] r.pc = "fb_save" -> FallbackSave(r, files, {})
      [] r.pc = "fb_ocr" -> [r |-> FallbackOcr(r, files, {}), fs |-> files]
      [] r.pc = "fb_finally" -> FallbackFinally(r, files, {})
      [] r.pc = "respond" -> [r |-> Respond(r), fs |-> files]
      [] r.pc = "cleanup" -> Cleanup(r, files, {})

RECURSIVE RunAlone(_, _)
RunAlone(r, files) ==
    IF r.pc = "done" THEN r
    ELSE LET out == StepAlone(r, files) IN RunAlone(out.r, out.fs)

\* the response to the request when no other request is in flight
AloneResponse(upload, output_format) ==
    RunAlone(NewRequest(upload, output_format), <<>>).response

\* C10: in every interleaving of two concurrent requests, whatever their file
\* names, each request's response is the response it would get alone.
C10_ResponsesAsAlone ==
    \A i \in DOMAIN reqs :
        reqs[i].pc = "done" =>
            reqs[i].response = AloneResponse(reqs[i].upload, reqs[i].output_format)

-----------------------------------------------------------------------------
(* Unsupported file types                                                  *)

\* the text after the last dot of the client's file name, lowercased ("" when
\* the name has no dot)
LoweredExtension(r) == Lower(r.original_filename.ext)

UnsupportedType(r) ==
    LoweredExtension(r) \notin {"docx", "pdf"} \cup SUPPORTED_IMAGE_EXTENSIONS

-----------------------------------------------------------------------------
(* Errors of an image request                                              *)

\* a finished request for a file with a supported image extension
ImageRequestDone(r) ==
    r.file_extension \in SUPPORTED_IMAGE_EXTENSIONS /\ r.pc \in {"cleanup", "done"}

\* the response is the generic processing error naming the exception
ProcessingError(r, type_name, message) ==
    /\ r.response.status_code = 422
    /\ Contains(r.response.detail, type_name)
    /\ Contains(r.response.detail, message)

\* C12: for a request on a supported image file a missing engine yields 501; every
\* other failure inside process_image_file (preprocessing error, backend
\* RuntimeError or timeout, unexpected exception) yields 422 with the original
\* exception's type name and message; 501 is produced only when the engine is
\* missing.
C12_ImageErrors ==
    \A i \in DOMAIN reqs :
        LET r == reqs[i]
            readable == r.upload.content.kind = "image"
        IN ImageRequestDone(r) =>
            /\ (readable /\ "engine_missing" \in env) => r.response.status_code = 501
            /\ ~readable => ProcessingError(r, "ValueError", BackendMessage(r.upload.content))
            /\ (readable /\ "engine_missing" \notin env /\ "ocr_timeout" \in env) =>
                    ProcessingError(r, "RuntimeError", "Tesseract process timeout")
            /\ (readable /\ env \cap {"engine_missing", "ocr_timeout"} = {}
                         /\ "ocr_unexpected" \in env) =>
                    ProcessingError(r, "KeyError", "'conf'")
            /\ r.response.status_code = 501 => "engine_missing" \in env

-----------------------------------------------------------------------------
(* Native-text PDFs                                                        *)

\* the upload is a readable PDF whose direct text is longer than 100 characters
LongNativePdf(r) ==
    LET d == ProcessPdfFile(r.file_path, r.upload.content)
    IN /\ r.file_extension = "pdf"
       /\ d.raised = ""
       /\ StrLen(d.text_with_placeholders) > 100

\* C13: a request for a readable native-text PDF of more than 100 characters
\* of body text, under any allowed table settings, ends in a success response
\* of method direct_text_extraction carrying the direct text and tables, and
\* neither renders a page nor runs OCR
C13_NativePdfDirect ==
    \A i \in DOMAIN reqs :
        LET r == reqs[i]
        IN (LongNativePdf(r) /\ r.pc \in {"cleanup", "done"}) =>
                /\ Returns(r, ProcessPdfFile(r.file_path, r.upload.content),
                           "direct_text_extraction")
                /\ ~Renders(r)
                /\ ~RunsOcr(r)

-----------------------------------------------------------------------------
(* Errors of the extractors                                                *)

StartsWith(s, prefix) == Len(s) >= Len(prefix) /\ SubSeq(s, 1, Len(prefix)) = prefix

\* the extractor's run has ended
ExtractorEnded == result.raised \notin {"not run", "running"}

\* the backend's message for what makes the extraction of the input fail, ""
\* when nothing does
BackendFailure ==
    IF input.file.kind \notin {"pdf", "docx"} THEN BackendMessage(input.file)
    ELSE LET elements == IF input.file.kind = "pdf" THEN input.file.pages ELSE input.file.body
         IN IF Raising(elements) # {} THEN FirstRaised(elements) ELSE ""

ErrorPrefix == IF input.path.ext = "pdf" THEN "Error processing PDF file"
               ELSE "Error processing DOCX file"

\* C14: process_pdf_file and process_docx_file, on a path that is missing or
\* cannot be opened or on a backend exception while iterating the pages or
\* elements, raise a ValueError whose message starts with 'Error processing
\* PDF file' / 'Error processing DOCX file' and contains the file path and the
\* backend's message, and nothing of the pages processed before is returned
C14_ExtractorErrors ==
    (ExtractorEnded /\ BackendFailure # "") =>
        /\ result.raised = "ValueError"
        /\ StartsWith(result.message, ErrorPrefix)
        /\ Contains(result.message, PathStr(input.path))
        /\ Contains(result.message, BackendFailure)
        /\ DOMAIN result = {"raised", "message"}

\* a PDF whose second page raises after a first page with a table was processed
C14_Witness ==
    /\ ExtractorEnded
    /\ input.file.kind = "pdf"
    /\ Len(input.file.pages) = 2
    /\ Raising(input.file.pages) = {2}
    /\ Len(input.file.pages[1].tables) > 0
    /\ result.raised = "ValueError"

-----------------------------------------------------------------------------
(* PDF table settings                                                      *)

\* the request has ended for an upload that is a readable PDF
PdfRequestDone(r) ==
    /\ r.file_extension = "pdf"
    /\ r.upload.content.kind = "pdf"
    /\ r.pc \in {"cleanup", "done"}

\* the keyword arguments the table finder is to get for the settings
RequestedKwargs(settings) ==
    (IF settings.table_strategy = "pymupdf_default" THEN <<>>
     ELSE IF settings.table_strategy \in {"lines_strict", "text", "lines"}
     THEN ("strategy" :> Str(settings.table_strategy))
     ELSE ("strategy" :> Str("lines_strict")))
    @@ (IF settings.text_tolerance = None THEN <<>>
        ELSE ("text_tolerance" :> settings.text_tolerance))

FindTablesCall(r, page_num) ==
    {k \in 1..Len(r.calls) : r.calls[k].op = "find_tables" /\ r.calls[k].page = page_num}

\* C15: on every page of a PDF the table finder is called with the requested
\* strategy when it is lines_strict, text or lines, with no strategy when it
\* is the backend's default, and with the text tolerance if and only if one
\* was supplied
C15_TableStrategy ==
    \A i \in DOMAIN reqs :
        LET r == reqs[i]
        IN PdfRequestDone(r) =>
            \A p \in 1..Len(r.upload.content.pages) :
                /\ FindTablesCall(r, p - 1) # {}
                /\ \A k \in FindTablesCall(r, p - 1) :
                        r.calls[k].kwargs = RequestedKwargs(r.pdf_extraction_settings)

\* a raw row whose cells are all None, empty or blank
EmptyRow(row) == \A c \in 1..Len(row) : CellStr(row[c]) \in {"", " "}

NonEmptyRows(rows) == SelectSeq(rows, LAMBDA row : ~EmptyRow(row))

\* the document with the empty rows taken out of every table
WithoutEmptyRows(file) ==
    [file EXCEPT !.pages =
        [p \in 1..Len(file.pages) |->
            [file.pages[p] EXCEPT !.tables =
                [t \in 1..Len(file.pages[p].tables) |->
                    [file.pages[p].tables[t] EXCEPT !.rows = NonEmptyRows(@)]]]]]

\* C16: with remove_empty_rows on, the tables of a PDF are those of the raw
\* rows without the rows whose cells are all empty or blank, the first row
\* left being the headers; with it off (the default) every raw row is kept
C16_RemoveEmptyRows ==
    \A i \in DOMAIN reqs :
        LET r == reqs[i]
            kept == IF r.pdf_extraction_settings.remove_empty_rows
                    THEN WithoutEmptyRows(r.upload.content) ELSE r.upload.content
        IN (PdfRequestDone(r) /\ r.output_format = "json" /\ ~RunsOcr(r)) =>
                /\ r.response.status_code = 200
                /\ r.response.content.tables = ProcessPdfFile(r.file_path, kept).tables_data

-----------------------------------------------------------------------------
(* Image preprocessing                                                     *)

\* deskew has returned: its output, in gray, is processed_cv_img
DeskewReturned ==
    /\ result # NoResult
    /\ result.pc = "binarize"
    /\ input.deskew_image_flag

\* the image deskew was given, rotated by the angle
Warped(image_cv, angle) == [image_cv EXCEPT !.pixels = Append(@, <<"warpAffine", angle>>)]

\* C17: deskew returns the pixels it was given when the corrected angle is
\* below 0.1 or above 25 degrees in absolute value and when there is no
\* foreground pixel; for an angle strictly between them it returns the image
\* rotated by that angle
C17_DeskewBounds ==
    DeskewReturned =>
        IF input.skew.kind = "blank"
        THEN result.processed_cv_img = Gray(result.cv_img_bgr)
        ELSE LET angle == CorrectedAngle(input.skew.angle)
             IN /\ (Abs(angle) < 10 \/ Abs(angle) > 2500) =>
                        result.processed_cv_img = Gray(result.cv_img_bgr)
                /\ (Abs(angle) > 10 /\ Abs(angle) < 2500) =>
                        result.processed_cv_img = Gray(Warped(result.cv_img_bgr, angle))

\* the orientation step is over: pil_img is the image it leaves
Oriented == result # NoResult /\ result.pc = "convert"

\* the image as opened
Opened == [mode |-> input.file.mode, size |-> input.file.size, pixels |-> input.file.pixels]

\* the rotation the detection reports in this run, -1 when it reports none
DetectedRotation ==
    IF input.osd.kind = "raises" THEN -1
    ELSE CASE input.osd.data = "Rotate: 0\n" -> 0
           [] input.osd.data = "Orientation in degrees: 270\nRotate: 90\nOrientation confidence: 2.5\n" -> 90
           [] input.osd.data = "Rotate: 180" -> 180
           [] input.osd.data = "Rotate:270" -> 270
           [] input.osd.data = "Rotate: 45" -> 45
           [] input.osd.data = "Rotate: 900" -> 900
           [] OTHER -> -1

\* C18: for a detected rotation d of 0, 90, 180 or 270 the image is rotated by
\* (360 - d) mod 360 degrees, the canvas growing to fit (a quarter turn swaps
\* width and height), with apply_preprocessing set or not; for any other
\* value and without one it is not rotated
C18_OrientationCorrection ==
    Oriented =>
        LET d == DetectedRotation
            turn == (360 - d) % 360
        IN IF d \in {90, 180, 270}
           THEN result.pil_img =
                    [mode |-> Opened.mode,
                     size |-> IF turn \in {90, 270} THEN <<Opened.size[2], Opened.size[1]>>
                              ELSE Opened.size,
                     pixels |-> Append(Opened.pixels, <<"rotate", turn>>)]
           ELSE result.pil_img = Opened

\* a detected rotation of 90 is corrected while apply_preprocessing is off
C18_Witness ==
    /\ Oriented
    /\ DetectedRotation = 90
    /\ ~input.apply_preprocessing
    /\ result.pil_img.size = <<1, 2>>

\* the state of preprocess_image_for_ocr, also after process_image_file went on
Preprocess == IF result.pc = "done" THEN result.preprocessed ELSE result

Ops(image) == {image.pixels[k][1] : k \in 1..Len(image.pixels)}

\* deskew is called and raises
DeskewRaises ==
    input.apply_preprocessing /\ input.deskew_image_flag /\ input.skew.kind = "raises"

\* C19: when the orientation detection fails (a timeout, a runtime error of
\* the backend, any other exception) no error is raised because of it, and
\* the remaining steps run on the image as opened, not rotated
C19_OsdFailureSwallowed ==
    (result # NoResult /\ input.file.kind = "image" /\ input.osd.kind = "raises") =>
        /\ Preprocess.pc = "raised" => DeskewRaises
        /\ Preprocess.pc \notin {"osd", "raised"} =>
                /\ Preprocess.pil_img = Opened
                /\ Preprocess.log # <<>>
        /\ Preprocess.pc = "returned" =>
                /\ Preprocess.returned.size = Opened.size
                /\ "rotate" \notin Ops(Preprocess.returned)
                /\ "gray" \in Ops(Preprocess.returned)
                /\ "otsu" \in Ops(Preprocess.returned) <=> input.apply_preprocessing

\* a timeout of the orientation detection, and the binarized image returned
C19_Witness ==
    /\ result # NoResult
    /\ result.pc = "returned"
    /\ input.osd.kind = "raises"
    /\ input.osd.type = "RuntimeError"
    /\ "otsu" \in Ops(result.returned)

\* deskew was called in the run
DeskewCalled ==
    \E k \in 1..Len(Preprocess.log) : Preprocess.log[k] = "DEBUG: Applying fine deskewing"

\* the pixels of the image the orientation step left, in gray
OrientedGray ==
    (IF Preprocess.pil_img.mode = "RGB" THEN Preprocess.pil_img.pixels
     ELSE Append(Preprocess.pil_img.pixels, <<"convert", "RGB">>)) \o <<<<"gray">>>>

\* C20: the image preprocess_image_for_ocr returns has a single channel;
\* deskew runs only with apply_preprocessing and deskew_image_flag both true,
\* the binarization if and only if apply_preprocessing is true; with
\* apply_preprocessing false the image returned is the orientation-corrected
\* image in gray, whatever deskew_image_flag is; and deskew_applied of
\* ocr_settings_used is true exactly when both flags are
C20_PreprocessingFlags ==
    /\ (result # NoResult /\ Preprocess.pc = "returned") =>
            /\ Preprocess.returned.mode = "L"
            /\ DeskewCalled <=> (input.apply_preprocessing /\ input.deskew_image_flag)
            /\ "warpAffine" \in Ops(Preprocess.returned) => DeskewCalled
            /\ "otsu" \in Ops(Preprocess.returned) <=> input.apply_preprocessing
            /\ ~input.apply_preprocessing =>
                    /\ Preprocess.returned.pixels = OrientedGray
                    /\ Preprocess.returned.size = Preprocess.pil_img.size
    /\ (result # NoResult /\ result.pc = "done" /\ result.data.raised = "") =>
            result.data.ocr_settings_used.deskew_applied
                = (input.apply_preprocessing /\ input.deskew_image_flag)

\* deskew asked for without preprocessing: a rotated image comes back in gray
C20_Witness ==
    /\ result # NoResult
    /\ result.pc = "done"
    /\ result.data.raised = ""
    /\ ~input.apply_preprocessing
    /\ input.deskew_image_flag
    /\ ~result.data.ocr_settings_used.deskew_applied
    /\ Ops(result.preprocessed.returned) = {"file", "rotate", "gray"}

-----------------------------------------------------------------------------
(* The OCR result                                                          *)

\* process_image_file has returned a result
OcrDone == result # NoResult /\ result.raised = ""

HasText(row) == row.text.kind = "str" /\ row.text.v # <<>>

\* C21: extracted_text is the texts of the rows whose confidence is not -1
\* and whose text is not empty, in the backend's order, joined by one space
\* and stripped; the rows of confidence -1 and the rows without text add
\* nothing to it
C21_ExtractedText ==
    OcrDone =>
        LET words == SelectSeq(input.file.rows, LAMBDA row : row.conf # -1 /\ HasText(row))
        IN result.extracted_text
                = Strip(Join(<<SP>>, [i \in 1..Len(words) |-> words[i].text.v]))

\* C22: word_level_details has, in the backend's order, one entry for each
\* row that passes the confidence filter and has text that is not empty and
\* not blank, carrying the row's text, left, top, width, height and its
\* confidence (0.0 for the -1 sentinel), and no entry for any other row;
\* tables_data is empty
C22_WordLevelDetails ==
    OcrDone =>
        LET words == SelectSeq(input.file.rows,
                               LAMBDA row : row.conf # -1 /\ HasText(row)
                                            /\ Strip(row.text.v) # <<>>)
        IN /\ result.word_level_details
                = [i \in 1..Len(words) |->
                    [text |-> words[i].text.v,
                     confidence |-> IF words[i].conf = -1 THEN 0 ELSE words[i].conf,
                     left |-> words[i].left, top |-> words[i].top,
                     width |-> words[i].width, height |-> words[i].height]]
           /\ result.tables_data = <<>>

-----------------------------------------------------------------------------
(* The layout of the PDF text                                              *)

HasTripleNewline(s) ==
    \E k \in 1..(Len(s) - 2) : s[k] = NL /\ s[k + 1] = NL /\ s[k + 2] = NL

\* C23: text_with_placeholders of process_pdf_file has no leading or trailing
\* whitespace and no run of three or more newlines, for every arrangement of
\* text blocks and tables on the pages (adjacent tables, a table ending a
\* page followed by a table starting the next)
C23_NoTripleNewline ==
    PdfDone =>
        LET text == result.text_with_placeholders
        IN /\ text # <<>> => ~IsSpace(text[1]) /\ ~IsSpace(text[Len(text)])
           /\ ~HasTripleNewline(text)

-----------------------------------------------------------------------------
(* DOCX responses                                                          *)

\* the request has ended for an upload that is a readable DOCX
DocxRequestDone(r) ==
    /\ r.file_extension = "docx"
    /\ r.upload.content.kind = "docx"
    /\ Raising(r.upload.content.body) = {}
    /\ r.pc \in {"cleanup", "done"}

\* the table objects of a DOCX body: the first row the headers, the rest the data
DocxTableObjects(body) ==
    LET tbls == BodyTables(body)
    IN [k \in 1..Len(tbls) |->
            [id |-> TableId(k), position |-> k, caption |-> "None",
             headers |-> tbls[k].rows[1],
             data |-> [i \in 1..(Len(tbls[k].rows) - 1) |-> tbls[k].rows[i + 1]]]]

\* C24: a DOCX upload with output_format text or json is answered with 200,
\* the file name, the format and source_type docx; the text content is the
\* text with placeholders, followed if and only if the document has a table
\* by '--- Referenced Table Data ---' and, for each table by position, a
\* '--- <id> ---' line, the tab-joined headers and the tab-joined data rows
C24_DocxResponse ==
    \A i \in DOMAIN reqs :
        LET r == reqs[i]
            text == ProcessDocxFile(r.file_path, r.upload.content).text_with_placeholders
        IN DocxRequestDone(r) =>
            /\ r.response.status_code = 200
            /\ r.response.filename = r.original_filename
            /\ r.response.format = r.output_format
            /\ r.response.source_type = "docx"
            /\ r.output_format = "text" =>
                    r.response.content
                        = FormatToPlainText(
                            [text_with_placeholders |-> text,
                             tables_data |-> DocxTableObjects(r.upload.content.body)])

-----------------------------------------------------------------------------
(* The upload directory after a request                                    *)

AllDone == \A i \in DOMAIN reqs : reqs[i].pc = "done"

LoggedStagedRemovalError(r) ==
    \E k \in 1..Len(r.log) :
        r.log[k] = <<"Error deleting main temporary file", r.file_path>>

\* C25 as stated: once a request has finished, with any outcome, the staged
\* copy of its upload no longer exists, and once all requests have finished
\* no file remains in the upload directory
C25_StagedCopyGone ==
    /\ \A i \in DOMAIN reqs : reqs[i].pc = "done" => reqs[i].file_path \notin DOMAIN fs
    /\ AllDone => fs = <<>>

\* C25 amended: once a request has finished, with any outcome, the staged
\* copy of its upload no longer exists unless its deletion failed, and a
\* failed deletion is logged; once all requests have finished the files that
\* remain are staged copies and scratch images whose deletion failed and was
\* logged
C25_StagedCopyGoneUnlessRemovalFails ==
    /\ \A i \in DOMAIN reqs :
            reqs[i].pc = "done" =>
                IF "remove_staged" \in env
                THEN LoggedStagedRemovalError(reqs[i])
                ELSE reqs[i].file_path \notin DOMAIN fs
    /\ AllDone =>
            \A path \in DOMAIN fs :
                \E i \in DOMAIN reqs :
                    \/ path = reqs[i].file_path /\ LoggedStagedRemovalError(reqs[i])
                    \/ path = reqs[i].temp_ocr_image_path /\ LoggedRemovalError(reqs[i])

\* a request answered with 422 has finished and the directory is empty
C25_Witness ==
    /\ AllDone
    /\ \E i \in DOMAIN reqs : reqs[i].response.status_code = 422
    /\ "remove_staged" \notin env
    /\ fs = <<>>

-----------------------------------------------------------------------------
(* Running an extraction twice                                             *)

\* the processor has been called a second time on the file
RanAgain == "previous" \in DOMAIN input

-----------------------------------------------------------------------------
(* The order of a page's elements                                          *)

\* the text blocks of a page that are emitted: of text type, not blank
EmittedBlocks(page) ==
    SelectSeq(page.text_blocks,
              LAMBDA b : b.block_type = 0 /\ Strip(b.text_content) # <<>>)

\* the number of tables on the pages before page p
TablesBefore(pages, p) == Len(AllTables(SubSeq(pages, 1, p - 1)))

RECURSIVE EmittedBefore(_, _)
\* the number of words and tokens the pages before page p put into the text
EmittedBefore(pages, p) ==
    IF p = 1 THEN 0
    ELSE EmittedBefore(pages, p - 1)
         + Len(EmittedBlocks(pages[p - 1])) + Len(pages[p - 1].tables)

\* (y_start, x0) of the element behind a word or a token of page p
KeyOf(pages, p, a) ==
    IF IsToken(a)
    THEN LET n == CHOOSE m \in TokenNumbers : a = Token(m)
             bbox == AllTables(pages)[n].bbox
         IN <<bbox[2], bbox[1]>>
    ELSE LET b == CHOOSE t \in TextBlocks : Strip(t.text_content) = <<a>>
         IN <<b.bbox[2], b.bbox[1]>>

KeyLeq(k1, k2) == k1[1] < k2[1] \/ (k1[1] = k2[1] /\ k1[2] <= k2[2])

Count(seq, a) == Cardinality({k \in 1..Len(seq) : seq[k] = a})

\* C27: the words and table tokens of each page come out in ascending order
\* of (y_start, x0) of their bounding boxes, whatever order the backend
\* returned them in; each text block of text type that is not blank and each
\* table comes out once, and nothing comes out of a block of another type or
\* of a blank block
C27_PageOrder ==
    PdfDone =>
        LET pages == input.file.pages
            out == SelectSeq(result.text_with_placeholders, NonSpace)
        IN /\ Len(out) = EmittedBefore(pages, Len(pages) + 1)
           /\ \A p \in 1..Len(pages) :
                LET from == EmittedBefore(pages, p)
                    emitted == SubSeq(out, from + 1, EmittedBefore(pages, p + 1))
                    blocks == EmittedBlocks(pages[p])
                    expected == [k \in 1..Len(blocks) |-> blocks[k].text_content[1]]
                                \o [k \in 1..Len(pages[p].tables) |->
                                        Token(TablesBefore(pages, p) + k)]
                IN /\ \A a \in {expected[k] : k \in 1..Len(expected)}
                            \cup {emitted[k] : k \in 1..Len(emitted)} :
                        Count(emitted, a) = Count(expected, a)
                   /\ \A k \in 1..(Len(emitted) - 1) :
                        KeyLeq(KeyOf(pages, p, emitted[k]), KeyOf(pages, p, emitted[k + 1]))

\* a page the backend returns as block C, block A and a table: A comes out
\* first, the table between the two blocks
C27_Witness ==
    /\ PdfDone
    /\ Len(input.file.pages) = 1
    /\ Len(input.file.pages[1].text_blocks) = 2
    /\ Len(input.file.pages[1].tables) = 1
    /\ SelectSeq(result.text_with_placeholders, NonSpace) = <<"A", Token(1), "C">>
    /\ input.file.pages[1].text_blocks[1].text_content = <<"C", NL>>

-----------------------------------------------------------------------------
(* The angle of deskew                                                     *)

\* the angles deskew rotated the image by
WarpAngles(image_cv) ==
    {image_cv.pixels[k][2] : k \in {j \in 1..Len(image_cv.pixels) :
                                        image_cv.pixels[j][1] = "warpAffine"}}

\* C28: the angle deskew derives from the minimum-area rectangle is in
\* (-45, 45] degrees for every rectangle angle in [-90, 90]
C28_AngleRange ==
    (DeskewReturned /\ input.skew.kind = "angle") =>
        /\ -4500 < CorrectedAngle(input.skew.angle)
        /\ CorrectedAngle(input.skew.angle) <= 4500
        /\ \A angle \in WarpAngles(result.processed_cv_img) : -4500 < angle /\ angle <= 4500

-----------------------------------------------------------------------------
(* The response after the OCR fallback                                     *)

\* the request has ended and the OCR result replaced the direct extraction
OcrReplaced(r) == r.pc \in {"cleanup", "done"} /\ r.pdf_processed_via_ocr

\* the text the OCR engine reads off the rendering of page 0
PageZeroText(r) == ExtractedText(ConfidentRows(r.upload.content.pages[1].raster))

\* the words and tokens of the direct extraction
DirectWords(r) ==
    {r.direct_pdf_data.text_with_placeholders[k] :
        k \in {j \in 1..Len(r.direct_pdf_data.text_with_placeholders) :
                    NonSpace(r.direct_pdf_data.text_with_placeholders[j])}}

-----------------------------------------------------------------------------
(* An exception inside deskew                                              *)

\* C30: when a step inside deskew raises, deskew returns its input unchanged
\* and preprocess_image_for_ocr goes on to the binarization: the image it
\* returns is binarized and not rotated by deskew, and neither
\* preprocess_image_for_ocr nor process_image_file fails because of it
C30_DeskewFailureSwallowed ==
    (result # NoResult /\ input.file.kind = "image" /\ DeskewRaises) =>
        /\ Preprocess.pc # "raised"
        /\ Preprocess.pc = "returned" =>
                /\ "otsu" \in Ops(Preprocess.returned)
                /\ "warpAffine" \notin Ops(Preprocess.returned)
        /\ result.pc = "done" =>
                result.data.raised \notin {"ValueError", "NameError"}

====
